---------------------------- MODULE Spec2Model ----------------------------
(***************************************************************************)
(* A model of the constraint-based type checker of                         *)
(* lib/Sema/TypeCheckConstraints.cpp: the tuple shuffle, the type-variable *)
(* store, the type matcher, member resolution and the solution ranker,     *)
(* and of the task-group test of                                           *)
(* test/Concurrency/Runtime/async_taskgroup_void_neverConsumingTasks.swift.*)
(*                                                                         *)
(* Each subsystem has its own specification over the shared variables:     *)
(*   SpecShuffle  computeTupleShuffle on bounded tuple pairs               *)
(*   SpecBest     findBestSolution over the outcomes of compareSolutions   *)
(*   SpecStore    matchTypes, snapshots and restores on the type variables *)
(*   SpecProbe    matchTypes with each match kind on one pair of types     *)
(*   SpecMember   simplifyMemberConstraint on what lookup finds            *)
(*   SpecCompare  compareSolutions on the diff of two solutions            *)
(*   SpecAdd      addConstraint, one constraint after the other            *)
(*   SpecConjunction  as SpecAdd, with conjunctions among the constraints  *)
(*   SpecBind     matchTypes between a type variable and a type that may   *)
(*                mention it                                               *)
(*   SpecDiff     compareSolutions on the diff of three solutions          *)
(*   SpecSearch   the search over the alternatives of one disjunction       *)
(*   SpecGroup    the two task-group tests, any interleaving; SpecGroupLive *)
(*                adds the fairness of the scheduler                        *)
(***************************************************************************)
EXTENDS Integers, Sequences, FiniteSets, TLC

VARIABLES
    \* ---- computeTupleShuffle ----
    fromTuple,                 \* the source tuple type
    toTuple,                   \* the destination tuple type
    sourceLabelsAreMandatory,  \* the flag of the call
    shuffle,                   \* the call's outcome, or NoShuffle before it
    \* ---- findBestSolution ----
    numViable,                 \* viable.size() on entry
    compared,                  \* compareSolutions' outcome for each pair (i, j)
    minimize,                  \* the flag of the call
    viable,                    \* the list, as the original indices it holds
    best,                      \* the call's result, or NotCalled before it
    \* ---- the type-variable store and matchTypes ----
    constraintSystem,          \* the ConstraintSystem
    scopes,                    \* the solver scopes that are open
    history,                   \* the operations performed so far
    \* ---- matchTypes, kind by kind ----
    probeType1,                \* the first type
    probeType2,                \* the second type
    probeFlags,                \* the flags
    probeLocator,              \* the locator
    probed,                    \* the results so far, in the order of the kinds
    \* ---- simplifyMemberConstraint ----
    memberConstraint,          \* the ValueMember or TypeMember constraint
    lookupResult,              \* what name lookup finds for its base and name
    assertsEnabled,            \* whether the build keeps its assertions
    memberResult,              \* the call's outcome, or NotResolved before it
    \* ---- compareSolutions ----
    solutions,                 \* the solutions, each with its fixed score,
                               \* overload choices and type bindings
    prefersSubtypeBinding,     \* the flag of each bound type variable
    comparison,                \* the call's outcome, or NotCompared before it
    \* ---- the task-group test ----
    test,                      \* the test main is in: 1, 2, or 3 after both
    mainPc,                        \* where the test function is
    tasks,                     \* the state of each child task of the group
    waiter,                    \* the Waiter actor of the test
    bodyResult,                \* what the body of the group returned, and
                               \* how many children had finished by then
    allTasks,                  \* what withDiscardingTaskGroup returned
    printed                    \* the numbers printed after "all tasks: "

shuffleVars == <<fromTuple, toTuple, sourceLabelsAreMandatory, shuffle>>
bestVars == <<numViable, compared, minimize, viable, best>>
storeVars == <<constraintSystem, scopes, history>>
probeVars == <<probeType1, probeType2, probeFlags, probeLocator, probed>>
memberVars == <<memberConstraint, lookupResult, assertsEnabled, memberResult>>
compareVars == <<solutions, prefersSubtypeBinding, comparison>>
groupVars == <<test, mainPc, tasks, waiter, bodyResult, allTasks, printed>>
vars == <<shuffleVars, bestVars, storeVars, probeVars, memberVars, compareVars,
          groupVars>>

(***************************************************************************)
(* Bounds of the model.                                                    *)
(***************************************************************************)
MaxTupleLen == 2
MaxSolutions == 3

Min(S) == CHOOSE x \in S : \A y \in S : x <= y

(***************************************************************************)
(* Types.  Every type is a record of one shape, so that any two types can  *)
(* be compared: k is the type kind, n a nominal name, id a type-variable   *)
(* id, q the qualifiers or flags, a the component types and f the tuple    *)
(* field descriptors (name, vararg, init), parallel to a.  The universe    *)
(* holds canonical types only, so desugaring changes nothing.              *)
(***************************************************************************)
MkType(k, n, id, q, a, f) == [k |-> k, n |-> n, id |-> id, q |-> q, a |-> a, f |-> f]

StructType(n) == MkType("Struct", n, 0, {}, <<>>, <<>>)
IntType == StructType("Int")

\* One element of a tuple type: TupleTypeElt.
TupleTypeElt(name, ty, vararg, init) ==
    [name |-> name, ty |-> ty, vararg |-> vararg, init |-> init]

TupleType(fields) ==
    MkType("Tuple", "", 0, {},
           [i \in 1..Len(fields) |-> fields[i].ty],
           [i \in 1..Len(fields) |->
               [name |-> fields[i].name, vararg |-> fields[i].vararg,
                init |-> fields[i].init]])

\* TupleType::getFields
getFields(t) ==
    [i \in 1..Len(t.a) |->
        TupleTypeElt(t.f[i].name, t.a[i], t.f[i].vararg, t.f[i].init)]

(***************************************************************************)
(* computeTupleShuffle.  sources holds, for each destination element, a    *)
(* 0-based source index or a marker; consumed and the sequences are        *)
(* 1-based, so source index j is position j + 1.                           *)
(***************************************************************************)
unassigned == -3
DefaultInitialize == -1
FirstVariadic == -2

\* A named-element search that never finds a match, as if the first loop
\* were skipped.
FindNamed_NoMatch(fromFields, consumed, name) == -1

\* The first not-yet-consumed source element named name, or -1.
FindNamed(fromFields, consumed, name) ==
    LET S == {j \in 1..Len(fromFields) :
                 fromFields[j].name = name /\ ~consumed[j]}
    IN  IF S = {} THEN -1 ELSE Min(S) - 1

\* The first loop: match up any named elements.
RECURSIVE MatchNamedElements(_, _, _, _, _)
MatchNamedElements(fromFields, toFields, i, sources, consumed) ==
    IF i > Len(toFields) THEN [sources |-> sources, consumed |-> consumed]
    ELSE IF toFields[i].name = ""
    THEN MatchNamedElements(fromFields, toFields, i + 1, sources, consumed)
    ELSE LET matched == FindNamed(fromFields, consumed, toFields[i].name)
         IN  IF matched = -1
             THEN MatchNamedElements(fromFields, toFields, i + 1, sources, consumed)
             ELSE MatchNamedElements(fromFields, toFields, i + 1,
                                     [sources EXCEPT ![i] = matched],
                                     [consumed EXCEPT ![matched + 1] = TRUE])

\* A skip that steps to the next input whether it is consumed or not.
skipToNextAvailableInput_StepsOne(consumed, fromNext) ==
    IF fromNext < Len(consumed) THEN fromNext + 1 ELSE fromNext

\* The lambda skipToNextAvailableInput: the next unconsumed index from fromNext.
skipToNextAvailableInput(consumed, fromNext) ==
    LET S == {j \in fromNext..(Len(consumed) - 1) : ~consumed[j + 1]}
    IN  IF S = {} THEN Len(consumed) ELSE Min(S)

\* The while loop of a variadic destination element: collect the remaining
\* unnamed inputs; a labeled input ends the call with failure.
RECURSIVE CollectVariadic(_, _, _, _)
CollectVariadic(fromFields, consumed, variadicArgs, fromNext) ==
    IF fromNext = Len(fromFields)
    THEN [failed |-> FALSE, consumed |-> consumed,
          variadicArgs |-> variadicArgs, fromNext |-> fromNext]
    ELSE IF fromFields[fromNext + 1].name # ""
    THEN [failed |-> TRUE, consumed |-> consumed,
          variadicArgs |-> variadicArgs, fromNext |-> fromNext]
    ELSE LET c == [consumed EXCEPT ![fromNext + 1] = TRUE]
         IN  CollectVariadic(fromFields, c, Append(variadicArgs, fromNext),
                             skipToNextAvailableInput(c, fromNext))

\* A label check that forgets the sourceLabelsAreMandatory flag.
LabelConflict_IgnoresMandatory(fromElt, toElt, mandatory) ==
    fromElt.name # "" /\ toElt.name # ""

\* The input element is named and either the label is mandatory or the
\* destination element has a label of its own.
LabelConflict(fromElt, toElt, mandatory) ==
    fromElt.name # "" /\ (mandatory \/ toElt.name # "")

ShuffleOutcome(failed, sources, variadicArgs, consumed) ==
    [done |-> TRUE, failed |-> failed, sources |-> sources,
     variadicArgs |-> variadicArgs, consumed |-> consumed]

\* An end of the shuffle that does not look for inputs left over.
FinishShuffle_LeavesInputs(fromFields, sources, variadicArgs, consumed, fromNext) ==
    ShuffleOutcome(FALSE, sources, variadicArgs, consumed)

\* The check after the second loop, and the final assertion's operand.
FinishShuffle(fromFields, sources, variadicArgs, consumed, fromNext) ==
    ShuffleOutcome(fromNext # Len(fromFields), sources, variadicArgs, consumed)

\* The second loop: resolve any unmatched elements.
RECURSIVE ResolveUnmatched(_, _, _, _, _, _, _, _)
ResolveUnmatched(fromFields, toFields, mandatory, i, sources, consumed, variadicArgs, fromNext) ==
    IF i > Len(toFields)
    THEN FinishShuffle(fromFields, sources, variadicArgs, consumed, fromNext)
    ELSE IF sources[i] # unassigned
    THEN ResolveUnmatched(fromFields, toFields, mandatory, i + 1, sources,
                          consumed, variadicArgs, fromNext)
    ELSE IF toFields[i].vararg
    THEN LET r == CollectVariadic(fromFields, consumed, variadicArgs, fromNext)
         IN  IF r.failed
             THEN ShuffleOutcome(TRUE, sources, r.variadicArgs, r.consumed)
             ELSE \* sources[i] = FirstVariadic; break
                  FinishShuffle(fromFields,
                                [sources EXCEPT ![i] = FirstVariadic],
                                r.variadicArgs, r.consumed, r.fromNext)
    ELSE IF fromNext = Len(fromFields)
    THEN IF toFields[i].init
         THEN ResolveUnmatched(fromFields, toFields, mandatory, i + 1,
                               [sources EXCEPT ![i] = DefaultInitialize],
                               consumed, variadicArgs, fromNext)
         ELSE ShuffleOutcome(TRUE, sources, variadicArgs, consumed)
    ELSE IF LabelConflict(fromFields[fromNext + 1], toFields[i], mandatory)
    THEN ShuffleOutcome(TRUE, sources, variadicArgs, consumed)
    ELSE LET c == [consumed EXCEPT ![fromNext + 1] = TRUE]
         IN  ResolveUnmatched(fromFields, toFields, mandatory, i + 1,
                              [sources EXCEPT ![i] = fromNext], c,
                              variadicArgs,
                              skipToNextAvailableInput(c, fromNext))

\* constraints::computeTupleShuffle; failed is the function's result (true
\* on failure), sources and variadicArgs its output parameters.
computeTupleShuffle(from, to, mandatory) ==
    LET fromFields == getFields(from)
        toFields == getFields(to)
        named == MatchNamedElements(fromFields, toFields, 1,
                                    [i \in 1..Len(toFields) |-> unassigned],
                                    [j \in 1..Len(fromFields) |-> FALSE])
    IN  ResolveUnmatched(fromFields, toFields, mandatory, 1, named.sources,
                         named.consumed, <<>>,
                         skipToNextAvailableInput(named.consumed, 0))

(***************************************************************************)
(* findBestSolution.  Solutions are known by their 0-based index in the    *)
(* list on entry; cmp[<<i, j>>] is what compareSolutions(viable, diff, i,  *)
(* j) returns.                                                             *)
(***************************************************************************)
SolutionCompareResult == {"Identical", "Better", "Worse", "Incomparable"}

Nothing == [some |-> FALSE, idx |-> 0]
Some(i) == [some |-> TRUE, idx |-> i]

BestOutcome(result, list, losers) ==
    [called |-> TRUE, result |-> result, viable |-> list, losers |-> losers]

\* The first loop: find a potential best.
RECURSIVE FindPotentialBest(_, _, _, _, _)
FindPotentialBest(cmp, n, i, losers, bestIdx) ==
    IF i = n THEN [losers |-> losers, bestIdx |-> bestIdx]
    ELSE LET c == cmp[<<i, bestIdx>>]
         IN  IF c = "Worse"
             THEN FindPotentialBest(cmp, n, i + 1, [losers EXCEPT ![i] = TRUE], bestIdx)
             ELSE IF c = "Better"
             THEN FindPotentialBest(cmp, n, i + 1, [losers EXCEPT ![bestIdx] = TRUE], i)
             ELSE FindPotentialBest(cmp, n, i + 1, losers, bestIdx)

\* The second loop: make sure that the current best is better than all of the
\* solved systems.  returned is set by the eager return of Nothing.
RECURSIVE CheckBest(_, _, _, _, _, _)
CheckBest(cmp, n, min, i, losers, bestIdx) ==
    IF i = n
    THEN [losers |-> losers, ambiguous |-> FALSE, returned |-> FALSE]
    ELSE IF i = bestIdx THEN CheckBest(cmp, n, min, i + 1, losers, bestIdx)
    ELSE LET c == cmp[<<bestIdx, i>>]
         IN  IF c = "Identical"
             THEN CheckBest(cmp, n, min, i + 1, losers, bestIdx)
             ELSE IF c = "Better"
             THEN CheckBest(cmp, n, min, i + 1, [losers EXCEPT ![i] = TRUE], bestIdx)
             ELSE LET l == IF c = "Worse"
                           THEN [losers EXCEPT ![bestIdx] = TRUE]
                           ELSE losers
                  IN  [losers |-> l, ambiguous |-> min, returned |-> ~min]

\* The inner loop of the sweep, for one i: i keeps being compared after it
\* has lost (the switch's break leaves the loop running).
RECURSIVE SweepInner(_, _, _, _, _)
SweepInner(cmp, n, i, j, losers) ==
    IF j = n THEN losers
    ELSE IF losers[j] THEN SweepInner(cmp, n, i, j + 1, losers)
    ELSE LET c == cmp[<<i, j>>]
         IN  IF c = "Better"
             THEN SweepInner(cmp, n, i, j + 1, [losers EXCEPT ![j] = TRUE])
             ELSE IF c = "Worse"
             THEN SweepInner(cmp, n, i, j + 1, [losers EXCEPT ![i] = TRUE])
             ELSE SweepInner(cmp, n, i, j + 1, losers)

\* The sweep: identify any solutions that are worse than any other solution.
\* A solution that has already lost is compared with no later one.
RECURSIVE Sweep(_, _, _, _)
Sweep(cmp, n, i, losers) ==
    IF i = n THEN losers
    ELSE IF losers[i] THEN Sweep(cmp, n, i + 1, losers)
    ELSE Sweep(cmp, n, i + 1, SweepInner(cmp, n, i, i + 1, losers))

\* Remove any solution that is worse than some other solution: the
\* survivors, in their order.
RECURSIVE RemoveLosers(_, _, _)
RemoveLosers(list, losers, i) ==
    IF i > Len(list) THEN <<>>
    ELSE IF losers[i - 1] THEN RemoveLosers(list, losers, i + 1)
    ELSE <<list[i]>> \o RemoveLosers(list, losers, i + 1)

\* A findBestSolution that returns its first candidate unchecked.
findBestSolution_Unchecked(cmp, list, min) ==
    LET n == Len(list)
        none == [i \in 0..(n - 1) |-> FALSE]
    IN  IF n = 0 THEN BestOutcome(Nothing, list, none)
        ELSE IF n = 1 THEN BestOutcome(Some(0), list, none)
        ELSE LET p == FindPotentialBest(cmp, n, 1, none, 0)
             IN  BestOutcome(Some(p.bestIdx), list, p.losers)

\* ConstraintSystem::findBestSolution
findBestSolution(cmp, list, min) ==
    LET n == Len(list)
        none == [i \in 0..(n - 1) |-> FALSE]
    IN  IF n = 0 THEN BestOutcome(Nothing, list, none)
        ELSE IF n = 1 THEN BestOutcome(Some(0), list, none)
        ELSE LET p == FindPotentialBest(cmp, n, 1, none, 0)
                 c == CheckBest(cmp, n, min, 0, p.losers, p.bestIdx)
             IN  IF c.returned THEN BestOutcome(Nothing, list, c.losers)
                 ELSE IF ~c.ambiguous
                 THEN BestOutcome(Some(p.bestIdx), list, c.losers)
                 ELSE LET l == Sweep(cmp, n, 0, c.losers)
                      IN  BestOutcome(Nothing, RemoveLosers(list, l, 1), l)

(***************************************************************************)
(* More types: type variables, lvalues, classes, functions and optionals.  *)
(* The universe has no existential type and no type with a __conversion    *)
(* member, so isExistentialType and shouldTryUserConversion are false on   *)
(* every type of it.                                                       *)
(***************************************************************************)
NumTypeVars == 2
TypeVarIds == 1..NumTypeVars
NullTypeVar == 0

NoType == MkType("Null", "", 0, {}, <<>>, <<>>)
TypeVariableType(id) == MkType("TypeVariable", "", id, {}, <<>>, <<>>)
LValueType(obj, quals) == MkType("LValue", "", 0, quals, <<obj>>, <<>>)
ClassType(n) == MkType("Class", n, 0, {}, <<>>, <<>>)
FunctionType(in, out, attrs) == MkType("Function", "", 0, attrs, <<in, out>>, <<>>)
OptionalType(t) == MkType("BoundGenericEnum", "Optional", 0, {}, <<t>>, <<>>)

\* LValueType::Qual: the qualifier sets of an lvalue type, ordered by
\* inclusion.
QualImplicit == {"Implicit"}
QualLess(q1, q2) == q1 \subseteq q2 /\ q1 # q2

getRValueType(t) == IF t.k = "LValue" THEN t.a[1] ELSE t

\* The class hierarchy of the program being type-checked: C : B : A, and D apart.
ClassNames == {"A", "B", "C", "D"}
SuperclassName(n) == IF n = "C" THEN "B" ELSE IF n = "B" THEN "A" ELSE ""

mayHaveSuperclass(t) == t.k = "Class"
getClassOrBoundGenericClass(t) == IF t.k = "Class" THEN t.n ELSE ""
getSuperClassOf(t) ==
    IF t.k = "Class" /\ SuperclassName(t.n) # ""
    THEN ClassType(SuperclassName(t.n)) ELSE NoType

\* TupleType::getNamedElementId: the 0-based index of the element of that
\* name, or -1.
getNamedElementId(fields, name) ==
    LET S == {i \in 1..Len(fields) : fields[i].name = name}
    IN  IF S = {} THEN -1 ELSE Min(S) - 1

\* TupleType::getFieldForScalarInit: the 0-based index of the one element a
\* scalar can initialize, or -1.
RECURSIVE ScalarInitScan(_, _, _)
ScalarInitScan(fields, i, fieldWithoutDefault) ==
    IF i > Len(fields)
    THEN (IF fieldWithoutDefault = -1 THEN 0 ELSE fieldWithoutDefault)
    ELSE IF fields[i].init THEN ScalarInitScan(fields, i + 1, fieldWithoutDefault)
    ELSE IF fieldWithoutDefault # -1
    THEN (IF fields[i].vararg
          THEN ScalarInitScan(fields, i + 1, fieldWithoutDefault)
          ELSE -1)
    ELSE ScalarInitScan(fields, i + 1, i - 1)

getFieldForScalarInit(fields) ==
    IF Len(fields) = 0 THEN -1 ELSE ScalarInitScan(fields, 1, -1)

(***************************************************************************)
(* Match kinds, flags, locators and constraints.                           *)
(***************************************************************************)
TypeMatchKind == <<"BindType", "SameType", "TrivialSubtype", "Subtype", "Conversion">>
TypeMatchKinds == {TypeMatchKind[i] : i \in 1..Len(TypeMatchKind)}

\* The position of a kind in the enumeration, which the code compares.
KindRank(kind) == CHOOSE i \in 1..Len(TypeMatchKind) : TypeMatchKind[i] = kind
KindAtLeast(kind, other) == KindRank(kind) >= KindRank(other)

TMF_None == {}
TMF_GenerateConstraints == {"GenerateConstraints"}

\* A locator is known by what hasMandatoryTupleLabels answers for it and for
\* the locators made from it by adding path elements: the head answers for
\* the locator itself, the tail is the locator one path element deeper; the
\* empty sequence is a locator that does not simplify to an expression.
NoLocator == <<>>
hasMandatoryTupleLabels(locator) == locator # <<>> /\ Head(locator)
withPathElement(locator) == IF locator = <<>> THEN <<>> ELSE Tail(locator)

getConstraintKind(kind) ==
    IF kind = "BindType" THEN "Bind"
    ELSE IF kind = "SameType" THEN "Equal" ELSE kind

getTypeMatchKind(kind) ==
    IF kind = "Bind" THEN "BindType"
    ELSE IF kind = "Equal" THEN "SameType" ELSE kind

\* OverloadChoice: a declaration found through a base type, the base type
\* itself, or an element of a tuple by its 0-based index.  decl holds the
\* declaration if there is one.
OverloadChoice(kind, base, decl, index) ==
    [kind |-> kind, base |-> base, decl |-> decl, index |-> index]

NoChoice == OverloadChoice("None", NoType, <<>>, -1)

Constraint(kind, restriction, first, second, nested, locator) ==
    [kind |-> kind, restriction |-> restriction, first |-> first,
     second |-> second, nested |-> nested, locator |-> locator,
     member |-> "", choice |-> NoChoice]

\* Constraint(kind, first, second, member, locator)
MemberConstraint(kind, first, second, member, locator) ==
    [Constraint(kind, "", first, second, <<>>, locator) EXCEPT !.member = member]

\* Constraint(type, choice, locator)
BindOverloadConstraint(type, choice, locator) ==
    [Constraint("BindOverload", "", type, NoType, <<>>, locator) EXCEPT
        !.choice = choice]

RelationalConstraint(kind, first, second, locator) ==
    Constraint(kind, "", first, second, <<>>, locator)

createDisjunction(constraints, locator) ==
    Constraint("Disjunction", "", NoType, NoType, constraints, locator)

NoConstraint == Constraint("Null", "", NoType, NoType, <<>>, <<>>)

(***************************************************************************)
(* The type-variable store.  cs is the ConstraintSystem: ParentOrFixed     *)
(* holds, for each type variable, either its parent in the union-find      *)
(* forest (itself for a root) or its fixed type.  Path compression is left *)
(* out: representatives are found by walking the parents.                  *)
(***************************************************************************)
Parent(v) == [fixed |-> FALSE, ty |-> TypeVariableType(v)]
Fixed(t) == [fixed |-> TRUE, ty |-> t]

RECURSIVE RepresentativeWalk(_, _, _)
RepresentativeWalk(pof, v, fuel) ==
    IF pof[v].fixed \/ pof[v].ty.id = v \/ fuel = 0 THEN v
    ELSE RepresentativeWalk(pof, pof[v].ty.id, fuel - 1)

getRepresentative(cs, v) == RepresentativeWalk(cs.ParentOrFixed, v, NumTypeVars)

getFixedType(cs, v) ==
    LET rep == getRepresentative(cs, v)
    IN  IF cs.ParentOrFixed[rep].fixed THEN cs.ParentOrFixed[rep].ty ELSE NoType

\* SavedTypeVariableBinding's constructor
SavedTypeVariableBinding(cs, v) ==
    [TypeVar |-> v, ParentOrFixed |-> cs.ParentOrFixed[v]]

\* A restore that leaves the binding as it is.
restore_Skipped(cs, saved) == cs

\* SavedTypeVariableBinding::restore
restore(cs, saved) ==
    [cs EXCEPT !.ParentOrFixed[saved.TypeVar] = saved.ParentOrFixed]

\* Implementation::recordBinding, on the saved bindings of the solver state
\* if there is one.
recordBinding(cs, v) ==
    IF cs.solverState
    THEN [cs EXCEPT !.savedBindings = Append(@, SavedTypeVariableBinding(cs, v))]
    ELSE cs

\* mergeEquivalenceClasses: the representative of the higher id gets the
\* one of the lower id as its parent.
mergeEquivalenceClasses(cs, typeVar1, typeVar2) ==
    IF typeVar1 = typeVar2 THEN cs
    ELSE LET root == IF typeVar1 < typeVar2 THEN typeVar1 ELSE typeVar2
             other == IF typeVar1 < typeVar2 THEN typeVar2 ELSE typeVar1
             otherRep == getRepresentative(cs, other)
         IN  [recordBinding(cs, otherRep) EXCEPT
                 !.ParentOrFixed[otherRep] = Parent(root)]

\* assignFixedType: the type is recorded on the representative.
assignFixedType(cs, typeVar, type) ==
    LET rep == getRepresentative(cs, typeVar)
    IN  [recordBinding(cs, rep) EXCEPT !.ParentOrFixed[rep] = Fixed(type)]

\* restoreTypeVariableBindings: the last numBindings saved bindings are
\* restored, the latest first, and dropped.
RECURSIVE restoreTypeVariableBindings(_, _)
restoreTypeVariableBindings(cs, numBindings) ==
    IF numBindings = 0 THEN cs
    ELSE LET n == Len(cs.savedBindings)
             r == restore(cs, cs.savedBindings[n])
         IN  restoreTypeVariableBindings(
                 [r EXCEPT !.savedBindings = SubSeq(@, 1, n - 1)],
                 numBindings - 1)

\* getFixedTypeRecursiveHelper: fuel bounds the walk, which follows one
\* fixed type per step.
RECURSIVE getFixedTypeRecursiveHelper(_, _, _, _)
getFixedTypeRecursiveHelper(cs, typeVar, wantRValue, fuel) ==
    LET got == getFixedType(cs, typeVar)
        fixed == IF wantRValue THEN getRValueType(got) ELSE got
    IN  IF got = NoType \/ fuel = 0 THEN NoType
        ELSE IF fixed.k # "TypeVariable" THEN fixed
        ELSE getFixedTypeRecursiveHelper(cs, fixed.id, wantRValue, fuel - 1)

\* getFixedTypeRecursive: the type looked through, and the type variable it
\* still is, if any.
getFixedTypeRecursive(cs, typeIn, wantRValue) ==
    LET type == IF wantRValue THEN getRValueType(typeIn) ELSE typeIn
        typeVar == IF type.k = "TypeVariable" THEN type.id ELSE NullTypeVar
        fixed == IF typeVar = NullTypeVar THEN NoType
                 ELSE getFixedTypeRecursiveHelper(cs, typeVar, wantRValue, NumTypeVars)
    IN  IF fixed # NoType THEN [type |-> fixed, typeVar |-> NullTypeVar]
        ELSE [type |-> type, typeVar |-> typeVar]

(***************************************************************************)
(* The type matcher.  Every operator takes the constraint system and       *)
(* returns the SolutionKind together with the constraint system as the     *)
(* call leaves it.                                                         *)
(***************************************************************************)
Res(r, cs) == [r |-> r, cs |-> cs]

\* The calls of matchTypes and of addConstraint that the matcher makes on
\* itself: Call runs the one the request names.
RECURSIVE Call(_, _)

callMatchTypes(cs, type1, type2, kind, flags, locator) ==
    Call(cs, [op |-> "matchTypes", type1 |-> type1, type2 |-> type2,
              kind |-> kind, flags |-> flags, locator |-> locator,
              constraint |-> NoConstraint])

callAddConstraint(cs, constraint) ==
    Call(cs, [op |-> "addConstraint", type1 |-> NoType, type2 |-> NoType,
              kind |-> "", flags |-> TMF_None, locator |-> NoLocator,
              constraint |-> constraint])

callSimplifyConstraint(cs, constraint) ==
    Call(cs, [op |-> "simplifyConstraint", type1 |-> NoType, type2 |-> NoType,
              kind |-> "", flags |-> TMF_None, locator |-> NoLocator,
              constraint |-> constraint])

RECURSIVE simplifyConjunction(_, _, _)
RECURSIVE MatchTupleElements(_, _, _, _, _, _, _)
RECURSIVE MatchShuffledElements(_, _, _, _, _, _, _)
RECURSIVE MatchVariadicArguments(_, _, _, _, _, _, _)
RECURSIVE matchDeepEqualityArgs(_, _, _, _, _)

\* matchTupleTypes, kind below Conversion: the loop over the elements.
MatchTupleElements(cs, fields1, fields2, i, kind, subFlags, locator) ==
    IF i > Len(fields1) THEN Res("Solved", cs)
    ELSE LET elt1 == fields1[i]
             elt2 == fields2[i]
         IN  IF elt1.name # elt2.name /\ kind = "SameType" THEN Res("Error", cs)
             ELSE IF /\ elt1.name # elt2.name
                     /\ elt2.name # ""
                     /\ getNamedElementId(fields1, elt2.name) # -1
             THEN Res("Error", cs)
             ELSE IF elt1.vararg # elt2.vararg THEN Res("Error", cs)
             ELSE LET m == callMatchTypes(cs, elt1.ty, elt2.ty, kind, subFlags,
                                      withPathElement(locator))
                  IN  IF m.r = "Error" THEN m
                      ELSE MatchTupleElements(m.cs, fields1, fields2, i + 1,
                                              kind, subFlags, locator)

\* matchTupleTypes, Conversion: the loop over the shuffle's sources.
MatchShuffledElements(cs, fields1, fields2, sources, idx2, subFlags, locator) ==
    IF idx2 > Len(sources) THEN Res("Solved", cs)
    ELSE IF sources[idx2] < 0
    THEN MatchShuffledElements(cs, fields1, fields2, sources, idx2 + 1,
                               subFlags, locator)
    ELSE LET m == callMatchTypes(cs, fields1[sources[idx2] + 1].ty, fields2[idx2].ty,
                             "Conversion", subFlags, withPathElement(locator))
         IN  IF m.r = "Error" THEN m
             ELSE MatchShuffledElements(m.cs, fields1, fields2, sources,
                                        idx2 + 1, subFlags, locator)

\* matchTupleTypes, Conversion: the loop over the variadic arguments.
MatchVariadicArguments(cs, fields1, eltType2, variadicArguments, i, subFlags, locator) ==
    IF i > Len(variadicArguments) THEN Res("Solved", cs)
    ELSE LET m == callMatchTypes(cs, fields1[variadicArguments[i] + 1].ty, eltType2,
                             "Conversion", subFlags, withPathElement(locator))
         IN  IF m.r = "Error" THEN m
             ELSE MatchVariadicArguments(m.cs, fields1, eltType2,
                                         variadicArguments, i + 1, subFlags,
                                         locator)

\* matchTupleTypes, Conversion: after the elements, the variadic arguments
\* if the shuffle has any.  m is the outcome of the loop over the sources.
MatchAfterShuffledElements(m, fields1, fields2, sh, subFlags, locator) ==
    IF m.r = "Error" \/ (\A i \in 1..Len(sh.sources) : sh.sources[i] # FirstVariadic)
    THEN m
    ELSE MatchVariadicArguments(m.cs, fields1, fields2[Len(fields2)].ty,
                                sh.variadicArgs, 1, subFlags, locator)

\* matchTupleTypes, Conversion: sh is what computeTupleShuffle gave.
MatchShuffledTuples(cs, fields1, fields2, sh, subFlags, locator) ==
    IF sh.failed THEN Res("Error", cs)
    ELSE MatchAfterShuffledElements(
             MatchShuffledElements(cs, fields1, fields2, sh.sources, 1,
                                   subFlags, locator),
             fields1, fields2, sh, subFlags, locator)

\* ConstraintSystem::matchTupleTypes.  The type of a variadic element is
\* held as its base type.
matchTupleTypes(cs, tuple1, tuple2, kind, flags, locator) ==
    IF ~KindAtLeast(kind, "Conversion")
    THEN IF Len(tuple1.a) # Len(tuple2.a) THEN Res("Error", cs)
         ELSE MatchTupleElements(cs, getFields(tuple1), getFields(tuple2), 1,
                                 kind, flags \cup TMF_GenerateConstraints,
                                 locator)
    ELSE MatchShuffledTuples(cs, getFields(tuple1), getFields(tuple2),
                             computeTupleShuffle(tuple1, tuple2,
                                 hasMandatoryTupleLabels(locator)),
                             flags \cup TMF_GenerateConstraints, locator)

\* ConstraintSystem::matchScalarToTupleTypes
matchScalarToTupleTypes(cs, type1, tuple2, kind, flags, locator) ==
    LET elt == getFields(tuple2)[getFieldForScalarInit(getFields(tuple2)) + 1]
    IN  callMatchTypes(cs, type1, elt.ty, kind, flags, withPathElement(locator))

\* ConstraintSystem::matchTupleToScalarTypes
matchTupleToScalarTypes(cs, tuple1, type2, kind, flags, locator) ==
    callMatchTypes(cs, tuple1.a[1], type2, kind, flags, withPathElement(locator))

\* ConstraintSystem::matchFunctionTypes
matchFunctionTypes(cs, func1, func2, kind, flags, locator) ==
    LET auto1 == "AutoClosure" \in func1.q
        auto2 == "AutoClosure" \in func2.q
        noReturn1 == "NoReturn" \in func1.q
        noReturn2 == "NoReturn" \in func2.q
        subKind == IF kind = "Subtype" THEN "TrivialSubtype"
                   ELSE IF kind = "Conversion" THEN "Subtype" ELSE kind
        subFlags == flags \cup TMF_GenerateConstraints
    IN  IF auto1 # auto2 /\ (auto2 \/ ~KindAtLeast(kind, "TrivialSubtype"))
        THEN Res("Error", cs)
        ELSE IF noReturn1 # noReturn2 /\ (noReturn2 \/ ~KindAtLeast(kind, "SameType"))
        THEN Res("Error", cs)
        ELSE LET input == callMatchTypes(cs, func2.a[1], func1.a[1], subKind,
                                     subFlags, withPathElement(locator))
             IN  IF input.r = "Error" THEN input
                 ELSE callMatchTypes(input.cs, func1.a[2], func2.a[2], subKind,
                                 subFlags, withPathElement(locator))

\* matchSuperclassTypes: the walk up the superclasses of type1.
RECURSIVE FindSuperclass(_, _)
FindSuperclass(super1, classDecl2) ==
    IF super1 = NoType THEN NoType
    ELSE IF getClassOrBoundGenericClass(super1) = classDecl2 THEN super1
    ELSE FindSuperclass(getSuperClassOf(super1), classDecl2)

\* A superclass match that looks at the direct superclass only.
matchSuperclassTypes_DirectOnly(cs, type1, type2, kind, flags, locator) ==
    IF getClassOrBoundGenericClass(getSuperClassOf(type1))
           = getClassOrBoundGenericClass(type2)
    THEN callMatchTypes(cs, getSuperClassOf(type1), type2, "SameType",
                        TMF_GenerateConstraints, locator)
    ELSE Res("Error", cs)

\* ConstraintSystem::matchSuperclassTypes
matchSuperclassTypes(cs, type1, type2, kind, flags, locator) ==
    LET super1 == FindSuperclass(getSuperClassOf(type1),
                                 getClassOrBoundGenericClass(type2))
    IN  IF super1 # NoType
        THEN callMatchTypes(cs, super1, type2, "SameType", TMF_GenerateConstraints,
                        locator)
        ELSE Res("Error", cs)

\* matchDeepEqualityTypes: the loop over the generic arguments.
matchDeepEqualityArgs(cs, args1, args2, i, locator) ==
    IF i > Len(args1) THEN Res("Solved", cs)
    ELSE LET m == callMatchTypes(cs, args1[i], args2[i], "SameType",
                             TMF_GenerateConstraints, withPathElement(locator))
         IN  IF m.r = "Error" THEN m
             ELSE matchDeepEqualityArgs(m.cs, args1, args2, i + 1, locator)

\* ConstraintSystem::matchDeepEqualityTypes.  No type of the universe has a
\* parent type.
matchDeepEqualityTypes(cs, type1, type2, locator) ==
    IF type1.k \in {"Struct", "Class", "Enum"} THEN Res("Solved", cs)
    ELSE matchDeepEqualityArgs(cs, type1.a, type2.a, 1, locator)

\* matchTypes, lines 1700-1962: the potential conversions, in the order the
\* code collects them.  autoClosure is set when the code leaves the
\* collection to match type1 against the result of an auto-closure type2.
BoundGenericKinds == {"BoundGenericClass", "BoundGenericEnum", "BoundGenericStruct"}

isOptional(t) == t.k = "BoundGenericEnum" /\ t.n = "Optional"

StructuralConversions(type1, type2) ==
    IF type1.k # type2.k THEN <<>>
    ELSE IF type1.k = "Tuple" THEN <<"TupleToTuple">>
    ELSE IF type1.k \in {"Enum", "Struct", "Class"} \cup BoundGenericKinds
            /\ type1.n = type2.n
    THEN <<"DeepEquality">>
    ELSE <<>>

tuplesWithMismatchedNames(type1, type2) ==
    /\ type1.k = "Tuple"
    /\ type2.k = "Tuple"
    /\ LET scalar1 == getFieldForScalarInit(getFields(type1))
           scalar2 == getFieldForScalarInit(getFields(type2))
       IN  /\ scalar1 >= 0
           /\ scalar2 >= 0
           /\ getFields(type1)[scalar1 + 1].name # ""
           /\ getFields(type1)[scalar1 + 1].name # getFields(type2)[scalar2 + 1].name

ScalarToTupleApplies(type1, type2, kind) ==
    /\ type2.k = "Tuple"
    /\ ~tuplesWithMismatchedNames(type1, type2)
    /\ \/ Len(type2.a) = 1 /\ ~type2.f[1].vararg
       \/ KindAtLeast(kind, "Conversion")
            /\ getFieldForScalarInit(getFields(type2)) >= 0

\* Subtype conversions that offer the collapse of a tuple of any length.
SubtypeConversions_AnyTuple(type1, type2) ==
    (IF type1.k = "Tuple" /\ Len(type1.a) >= 1
     THEN <<"TupleToScalar">> ELSE <<>>)
    \o
    (IF /\ mayHaveSuperclass(type1)
        /\ mayHaveSuperclass(type2)
        /\ getClassOrBoundGenericClass(type2) # ""
        /\ getClassOrBoundGenericClass(type1) # getClassOrBoundGenericClass(type2)
     THEN <<"Superclass">> ELSE <<>>)

SubtypeConversions(type1, type2) ==
    (IF /\ type1.k = "Tuple"
        /\ ~tuplesWithMismatchedNames(type1, type2)
        /\ Len(type1.a) = 1
        /\ ~type1.f[1].vararg
     THEN <<"TupleToScalar">> ELSE <<>>)
    \o
    (IF /\ mayHaveSuperclass(type1)
        /\ mayHaveSuperclass(type2)
        /\ getClassOrBoundGenericClass(type2) # ""
        /\ getClassOrBoundGenericClass(type1) # getClassOrBoundGenericClass(type2)
     THEN <<"Superclass">> ELSE <<>>)

\* Optional conversions that are never offered.
OptionalConversions_Never(type1, type2) ==
    <<>>

OptionalConversions(type1, type2) ==
    IF ~isOptional(type2) THEN <<>>
    ELSE (IF isOptional(type1) THEN <<"OptionalToOptional">> ELSE <<>>)
         \o <<"ValueToOptional">>

potentialConversions(type1, type2, concrete, kind) ==
    LET structural == StructuralConversions(type1, type2)
        subtyping == concrete /\ KindAtLeast(kind, "TrivialSubtype")
        converting == concrete /\ KindAtLeast(kind, "Conversion")
    IN  IF subtyping /\ ScalarToTupleApplies(type1, type2, kind)
        THEN [convs |-> structural \o <<"ScalarToTuple">>, autoClosure |-> FALSE]
        ELSE LET sub == IF subtyping THEN SubtypeConversions(type1, type2)
                        ELSE <<>>
                 load == IF /\ converting
                            /\ type1.k = "LValue"
                            /\ "Implicit" \in type1.q
                         THEN <<"LValueToRValue">> ELSE <<>>
                 opt == IF converting THEN OptionalConversions(type1, type2)
                        ELSE <<>>
             IN  [convs |-> structural \o sub \o load \o opt,
                  autoClosure |-> /\ converting
                                  /\ type2.k = "Function"
                                  /\ "AutoClosure" \in type2.q]

\* The match a conversion restriction stands for: the switch at 2010-2062
\* of matchTypes and the one at 2933-3013 of simplifyConstraint, which
\* differ in the flags they pass.
matchRestricted(cs, restriction, type1, type2, kind, flags, subFlags, locator) ==
    IF restriction = "TupleToTuple"
    THEN matchTupleTypes(cs, type1, type2, kind, flags, locator)
    ELSE IF restriction = "ScalarToTuple"
    THEN matchScalarToTupleTypes(cs, type1, type2, kind, subFlags, locator)
    ELSE IF restriction = "TupleToScalar"
    THEN matchTupleToScalarTypes(cs, type1, type2, kind, subFlags, locator)
    ELSE IF restriction = "DeepEquality"
    THEN matchDeepEqualityTypes(cs, type1, type2, locator)
    ELSE IF restriction = "Superclass"
    THEN matchSuperclassTypes(cs, type1, type2, kind, flags, locator)
    ELSE IF restriction = "LValueToRValue"
    THEN callMatchTypes(cs, getRValueType(type1), type2, kind, subFlags, locator)
    ELSE IF restriction = "ValueToOptional"
    THEN callMatchTypes(cs, type1, type2.a[1], kind, subFlags, locator)
    ELSE \* OptionalToOptional
         callMatchTypes(cs, type1.a[1], type2.a[1], kind, subFlags, locator)

\* Two type variables unified without a merge.
unifyTypeVariables_NoMerge(cs, rep1, rep2, kind, flags, locator) ==
    Res("Solved", cs)

\* Two type variables merged whatever their canBindToLValue options.
unifyTypeVariables_MergesAcrossOptions(cs, rep1, rep2, kind, flags, locator) ==
    Res("Solved", mergeEquivalenceClasses(cs, rep1, rep2))

\* matchTypes, lines 1600-1628: Bind or Equal with a type variable on both
\* sides, known by their representatives.
unifyTypeVariables(cs, rep1, rep2, kind, flags, locator) ==
    IF rep1 = rep2 THEN Res("Solved", cs)
    ELSE IF cs.canBindToLValue[rep1] # cs.canBindToLValue[rep2]
    THEN IF flags # TMF_None
         THEN Res("Solved",
                  callAddConstraint(cs,
                      RelationalConstraint(getConstraintKind(kind),
                                           TypeVariableType(rep1),
                                           TypeVariableType(rep2),
                                           locator)).cs)
         ELSE Res("Unsolved", cs)
    ELSE Res("Solved", mergeEquivalenceClasses(cs, rep1, rep2))

\* matchTypes, lines 1597-1674: Bind or Equal with a type variable on
\* either side.
matchTypeVariables(cs, type1, type2, typeVar1, typeVar2, kind, flags, locator) ==
    LET wantRvalue == kind = "SameType"
    IN  IF typeVar1 # NullTypeVar /\ typeVar2 # NullTypeVar
        THEN unifyTypeVariables(cs, getRepresentative(cs, typeVar1),
                                getRepresentative(cs, typeVar2), kind, flags,
                                locator)
        ELSE IF typeVar1 # NullTypeVar
        THEN LET t2 == IF wantRvalue THEN getRValueType(type2) ELSE type2
             IN  IF ~cs.canBindToLValue[typeVar1] /\ t2.k = "LValue"
                 THEN Res("Error", cs)
                 ELSE Res("Solved", assignFixedType(cs, typeVar1, t2))
        ELSE LET t1 == IF wantRvalue THEN getRValueType(type1) ELSE type1
             IN  IF ~cs.canBindToLValue[typeVar2] /\ t1.k = "LValue"
                 THEN Res("Error", cs)
                 ELSE Res("Solved", assignFixedType(cs, typeVar2, t1))

\* A commitment that goes for the first conversion collected.
commitToConversions_TakesFirst(cs, pc, type1, type2, concrete, kind, flags, locator) ==
    IF pc.autoClosure
    THEN callMatchTypes(cs, type1, type2.a[2], kind,
                        flags \cup TMF_GenerateConstraints,
                        withPathElement(locator))
    ELSE IF pc.convs = <<>>
    THEN Res(IF concrete THEN "Error" ELSE "Unsolved", cs)
    ELSE matchRestricted(cs, pc.convs[1], type1, type2, kind, flags,
                         flags \cup TMF_GenerateConstraints, locator)

\* matchTypes, lines 1912-2062: pc is what potentialConversions gave.
commitToConversions(cs, pc, type1, type2, concrete, kind, flags, locator) ==
    IF pc.autoClosure
    THEN callMatchTypes(cs, type1, type2.a[2], kind,
                        flags \cup TMF_GenerateConstraints,
                        withPathElement(locator))
    ELSE IF pc.convs = <<>>
    THEN Res(IF concrete THEN "Error" ELSE "Unsolved", cs)
    ELSE IF Len(pc.convs) > 1
    THEN Res("Solved",
             callAddConstraint(cs,
                 createDisjunction(
                     [i \in 1..Len(pc.convs) |->
                         Constraint(IF pc.convs[i] = "DeepEquality"
                                    THEN "Equal"
                                    ELSE getConstraintKind(kind),
                                    pc.convs[i], type1, type2, <<>>,
                                    locator)],
                     locator)).cs)
    ELSE matchRestricted(cs, pc.convs[1], type1, type2, kind, flags,
                         flags \cup TMF_GenerateConstraints, locator)

\* matchTypes, lines 1700-2062: the structure of the two types.
matchStructure(cs, type1, type2, concrete, kind, flags, locator) ==
    IF type1.k = type2.k /\ type1.k = "Function"
    THEN matchFunctionTypes(cs, type1, type2, kind, flags, locator)
    ELSE IF type1.k = type2.k /\ type1.k = "LValue"
    THEN IF /\ type1.q # type2.q
            /\ ~(KindAtLeast(kind, "TrivialSubtype") /\ QualLess(type1.q, type2.q))
         THEN Res("Error", cs)
         ELSE callMatchTypes(cs, type1.a[1], type2.a[1], "SameType",
                             flags \cup TMF_GenerateConstraints,
                             withPathElement(locator))
    ELSE commitToConversions(cs,
                             potentialConversions(type1, type2, concrete, kind),
                             type1, type2, concrete, kind, flags, locator)

\* matchTypes, lines 1590-2062: the two types looked through to their fixed
\* types, each with the type variable it still is, if any.
matchFixedTypes(cs, type1, type2, typeVar1, typeVar2, kind, flags, locator) ==
    IF type1 = type2 THEN Res("Solved", cs)
    ELSE IF typeVar1 = NullTypeVar /\ typeVar2 = NullTypeVar
    THEN matchStructure(cs, type1, type2, TRUE, kind, flags, locator)
    ELSE IF kind \in {"BindType", "SameType"}
    THEN matchTypeVariables(cs, type1, type2, typeVar1, typeVar2, kind, flags,
                            locator)
    ELSE IF flags # TMF_None
    THEN Res("Solved",
             callAddConstraint(cs,
                 RelationalConstraint(getConstraintKind(kind), type1, type2,
                                      locator)).cs)
    ELSE IF typeVar1 # NullTypeVar /\ typeVar2 # NullTypeVar
    THEN Res(IF typeVar1 = typeVar2 THEN "Solved" ELSE "Unsolved", cs)
    ELSE matchStructure(cs, type1, type2, FALSE, kind, flags, locator)

\* The type and the type variable that getFixedTypeRecursive gave, handed on.
matchLookedThrough(cs, f1, f2, kind, flags, locator) ==
    matchFixedTypes(cs, f1.type, f2.type, f1.typeVar, f2.typeVar, kind, flags,
                    locator)

\* ConstraintSystem::matchTypes
matchTypes(cs, type1, type2, kind, flags, locator) ==
    matchLookedThrough(cs,
                       getFixedTypeRecursive(cs, type1, kind = "SameType"),
                       getFixedTypeRecursive(cs, type2, kind = "SameType"),
                       kind, flags, locator)

\* simplifyConstraint, Conjunction: the loop over the nested constraints.
simplifyConjunction(cs, nested, i) ==
    IF i > Len(nested) THEN Res("Solved", cs)
    ELSE LET a == callAddConstraint(cs, nested[i]).cs
         IN  IF a.failedConstraint # NoConstraint THEN Res("Error", a)
             ELSE simplifyConjunction(a, nested, i + 1)

\* getMateralizedType
RECURSIVE getMateralizedType(_)
getMateralizedType(type) ==
    IF type.k = "LValue" THEN type.a[1]
    ELSE IF type.k = "Tuple"
    THEN [type EXCEPT !.a = [i \in 1..Len(type.a) |-> getMateralizedType(type.a[i])]]
    ELSE type

\* resolveOverload, lines 2104-2162: the type a reference to the choice
\* has.  The choices resolved here are the base type and the tuple index;
\* a declaration's choice sits in a disjunction until the solver branches.
refTypeOf(choice) ==
    IF choice.kind = "BaseType" THEN choice.base
    ELSE IF choice.base.k = "LValue"
    THEN LValueType(getRValueType(choice.base.a[1].a[choice.index + 1]),
                    choice.base.q)
    ELSE getMateralizedType(choice.base.a[choice.index + 1])

\* resolveOverload, lines 2168-2174
noteResolved(cs, boundType, choice, locator, refType) ==
    [cs EXCEPT !.resolvedOverloadSets =
        <<[boundType |-> boundType, choice |-> choice, locator |-> locator,
           refType |-> refType]>> \o @]

\* ConstraintSystem::resolveOverload
resolveOverload(cs, locator, boundType, choice) ==
    noteResolved(callAddConstraint(cs,
                     RelationalConstraint("Bind", boundType, refTypeOf(choice),
                                          NoLocator)).cs,
                 boundType, choice, locator, refTypeOf(choice))

\* A record of every restricted match that solved its constraint.
recordRestriction_OfEveryKind(result, constraint) ==
    IF result.r = "Solved"
    THEN Res("Solved",
             [result.cs EXCEPT !.constraintRestrictions =
                 Append(@, <<constraint.first, constraint.second,
                             constraint.restriction>>)])
    ELSE result

\* simplifyConstraint, lines 3017-3034: if a restricted match solved a
\* Conversion constraint, what was done is recorded.
recordRestriction(result, constraint) ==
    IF /\ result.r = "Solved"
       /\ constraint.kind = "Conversion"
       /\ constraint.restriction # "DeepEquality"
    THEN Res("Solved",
             [result.cs EXCEPT !.constraintRestrictions =
                 Append(@, <<constraint.first, constraint.second,
                             constraint.restriction>>)])
    ELSE result

\* A simplifier that takes a disjunction for solved.
simplifyDisjunction_Solved(cs, constraint) ==
    Res("Solved", cs)

\* simplifyConstraint, lines 3094-3096: disjunction constraints are never
\* solved here.
simplifyDisjunction(cs, constraint) ==
    Res("Unsolved", cs)

\* ConstraintSystem::simplifyConstraint, for the relational constraints,
\* conjunctions and disjunctions.
simplifyConstraint(cs, constraint) ==
    IF constraint.kind = "Conjunction"
    THEN simplifyConjunction(cs, constraint.nested, 1)
    ELSE IF constraint.kind = "Disjunction"
    THEN simplifyDisjunction(cs, constraint)
    ELSE IF constraint.kind = "BindOverload"
    THEN Res("Solved", resolveOverload(cs, constraint.locator, constraint.first,
                                       constraint.choice))
    ELSE IF constraint.restriction = ""
    THEN callMatchTypes(cs, constraint.first, constraint.second,
                    getTypeMatchKind(constraint.kind), TMF_None,
                    constraint.locator)
    ELSE recordRestriction(
             matchRestricted(cs, constraint.restriction, constraint.first,
                             constraint.second,
                             getTypeMatchKind(constraint.kind),
                             TMF_GenerateConstraints, TMF_GenerateConstraints,
                             constraint.locator),
             constraint)

\* addConstraint: the constraint goes to the retired constraints if there
\* is a solver state.
retireConstraint(cs, constraint) ==
    IF cs.solverState
    THEN [cs EXCEPT !.retiredConstraints = <<constraint>> \o @]
    ELSE cs

\* A note of the failure that keeps the latest constraint to fail.
noteFailure_KeepsLatest(cs, constraint) ==
    [cs EXCEPT !.failedConstraint = constraint]

\* addConstraint: the first constraint to fail is kept.
noteFailure(cs, constraint) ==
    IF cs.failedConstraint = NoConstraint
    THEN [cs EXCEPT !.failedConstraint = constraint]
    ELSE cs

\* addConstraint, lines 225-261: the switch on what simplifyConstraint gave.
addSimplified(s, constraint) ==
    IF s.r = "Error"
    THEN Res(FALSE, retireConstraint(noteFailure(s.cs, constraint), constraint))
    ELSE IF s.r = "Solved" THEN Res(TRUE, retireConstraint(s.cs, constraint))
    ELSE Res(FALSE, [s.cs EXCEPT !.Constraints = Append(@, constraint)])

\* ConstraintSystem::addConstraint(Constraint *), isExternallySolved and
\* simplifyExisting false; r is its return value.
addConstraint(cs, constraint) ==
    addSimplified(simplifyConstraint(cs, constraint), constraint)

Call(cs, request) ==
    IF request.op = "matchTypes"
    THEN matchTypes(cs, request.type1, request.type2, request.kind,
                    request.flags, request.locator)
    ELSE IF request.op = "simplifyConstraint"
    THEN simplifyConstraint(cs, request.constraint)
    ELSE addConstraint(cs, request.constraint)

(***************************************************************************)
(* Member resolution: simplifyMemberConstraint.  Name lookup is the type   *)
(* checker's; what it finds is an input here, a list of declarations each  *)
(* with the properties the filters ask about.  A failed assertion ends the *)
(* program in a build that keeps assertions and is passed over in one that *)
(* does not.  The failures recorded for diagnostics are left out.          *)
(***************************************************************************)
MetaTypeType(instance) == MkType("MetaType", "", 0, {}, <<instance>>, <<>>)
ProtocolType(n) == MkType("Protocol", n, 0, {}, <<>>, <<>>)
ModuleType(n) == MkType("Module", n, 0, {}, <<>>, <<>>)

isExistentialType(t) == t.k = "Protocol"
isDynamicLookupProtocol(t) == t.k = "Protocol" /\ t.n = "DynamicLookup"

\* A declaration that lookup found.
ValueDecl(invalid, instanceMember, func, associated) ==
    [isInvalid |-> invalid, isInstanceMember |-> instanceMember,
     isFuncDecl |-> func, involvesAssociatedTypes |-> associated]

\* StringRef::getAsInteger(10, Value): the value of a decimal name, or -1
\* where the code gets true, for a name that is no number.
DecimalNames == <<"0", "1", "2", "3">>
getAsInteger(name) ==
    IF \E i \in 1..Len(DecimalNames) : DecimalNames[i] = name
    THEN (CHOOSE i \in 1..Len(DecimalNames) : DecimalNames[i] = name) - 1
    ELSE -1

\* ConstraintSystem::simplifyType: fixed types are put in for the type
\* variables that have one.
RECURSIVE simplifyTypeSubstituting(_, _, _)
simplifyTypeSubstituting(cs, type, substituting) ==
    IF type.k = "TypeVariable"
    THEN IF /\ getFixedType(cs, type.id) # NoType
            /\ getRepresentative(cs, type.id) \notin substituting
         THEN simplifyTypeSubstituting(cs, getFixedType(cs, type.id),
                  substituting \cup {getRepresentative(cs, type.id)})
         ELSE TypeVariableType(getRepresentative(cs, type.id))
    ELSE [type EXCEPT !.a = [i \in 1..Len(type.a) |->
                                simplifyTypeSubstituting(cs, type.a[i], substituting)]]

simplifyType(cs, type) == simplifyTypeSubstituting(cs, type, {})

\* What simplifyMemberConstraint gives: the solution kind or the failed
\* assertion, the constraint system, and the overload choices it collected.
MemberRes(r, cs, choices) == [called |-> TRUE, r |-> r, cs |-> cs, choices |-> choices]

\* addBindOverloadConstraint
addBindOverloadConstraint(cs, boundType, choice, locator) ==
    callAddConstraint(cs, BindOverloadConstraint(boundType, choice, locator)).cs

\* ConstraintSystem::addOverloadSet
addOverloadSet(cs, boundType, choices, locator, asserts) ==
    IF choices = <<>> /\ asserts
    THEN MemberRes("AssertionFailure", cs, choices)
    ELSE MemberRes("Solved",
                   callAddConstraint(cs,
                       createDisjunction(
                           [i \in 1..Len(choices) |->
                               BindOverloadConstraint(boundType, choices[i],
                                                      locator)],
                           locator)).cs,
                   choices)

\* The choices made of the declarations that are kept.
DeclChoices(kept, kind, baseTy) ==
    [i \in 1..Len(kept) |-> OverloadChoice(kind, baseTy, <<kept[i]>>, -1)]

\* simplifyMemberConstraint, lines 2514-2537: a tuple base.
tupleMember(cs, constraint, baseTy, fieldIdx) ==
    IF fieldIdx = -1 THEN MemberRes("Error", cs, <<>>)
    ELSE MemberRes("Solved",
                   addBindOverloadConstraint(
                       cs, constraint.second,
                       OverloadChoice("TupleIndex", baseTy, <<>>, fieldIdx),
                       constraint.locator),
                   <<OverloadChoice("TupleIndex", baseTy, <<>>, fieldIdx)>>)

\* simplifyMemberConstraint, lines 2519-2527
tupleFieldIdx(baseTuple, name) ==
    IF getAsInteger(name) # -1 /\ getAsInteger(name) < Len(baseTuple.a)
    THEN getAsInteger(name)
    ELSE getNamedElementId(getFields(baseTuple), name)

\* simplifyMemberConstraint, lines 2554-2577: the constructors kept.
keepConstructor(constructor, isExistential) ==
    /\ ~constructor.isInvalid
    /\ ~(isExistential /\ constructor.involvesAssociatedTypes)

\* simplifyMemberConstraint, lines 2544-2586: constructors.
constructorMember(cs, constraint, baseTy, ctors, isExistential, asserts) ==
    IF ctors = <<>> THEN MemberRes("Error", cs, <<>>)
    ELSE IF SelectSeq(ctors, LAMBDA c : keepConstructor(c, isExistential)) = <<>>
    THEN MemberRes("Error", cs, <<>>)
    ELSE addOverloadSet(cs, constraint.second,
             DeclChoices(SelectSeq(ctors,
                             LAMBDA c : keepConstructor(c, isExistential)),
                         "Decl", baseTy),
             constraint.locator, asserts)

\* simplifyMemberConstraint, lines 2589-2613: member types only.
typeMember(cs, constraint, baseTy, lookup, asserts) ==
    IF lookup = <<>> THEN MemberRes("Error", cs, <<>>)
    ELSE addOverloadSet(cs, constraint.second,
             DeclChoices(SelectSeq(lookup, LAMBDA d : ~d.isInvalid), "Decl",
                         baseTy),
             constraint.locator, asserts)

keepMember_AnyStaticness(result, isExistential, isMetatype, isModule, isDynamicLookup) ==
    /\ ~result.isInvalid
    /\ ~(isExistential /\ result.involvesAssociatedTypes)

\* simplifyMemberConstraint, lines 2645-2683: the members kept.
keepMember(result, isExistential, isMetatype, isModule, isDynamicLookup) ==
    /\ ~result.isInvalid
    /\ ~(isExistential /\ result.involvesAssociatedTypes)
    /\ ~(isMetatype /\ ~(result.isFuncDecl \/ ~result.isInstanceMember))
    /\ ~(~isMetatype /\ ~isModule /\ ~result.isInstanceMember)
    /\ ~(isDynamicLookup /\ isMetatype /\ result.isInstanceMember)

\* simplifyMemberConstraint, lines 2696-2701: the end of the member lookup.
overloadSetOrError(cs, constraint, choices, asserts) ==
    IF choices = <<>> THEN MemberRes("Error", cs, <<>>)
    ELSE addOverloadSet(cs, constraint.second, choices, constraint.locator,
                        asserts)

\* simplifyMemberConstraint, lines 2615-2701: members of the base.
valueMember(cs, constraint, baseTy, lookup, isExistential, isMetatype, isModule, isDynamicLookup, asserts) ==
    IF lookup = <<>>
    THEN IF getAsInteger(constraint.member) = 0
         THEN MemberRes("Solved",
                        addBindOverloadConstraint(
                            cs, constraint.second,
                            OverloadChoice("BaseType", baseTy, <<>>, -1),
                            constraint.locator),
                        <<OverloadChoice("BaseType", baseTy, <<>>, -1)>>)
         ELSE MemberRes("Error", cs, <<>>)
    ELSE overloadSetOrError(cs, constraint,
             DeclChoices(SelectSeq(lookup,
                             LAMBDA d : keepMember(d, isExistential, isMetatype,
                                                   isModule, isDynamicLookup)),
                         IF isDynamicLookup THEN "DeclViaDynamic" ELSE "Decl",
                         baseTy),
             asserts)

\* simplifyMemberConstraint, lines 2500-2506: the instance type.
instanceTypeOf(baseObjTy) ==
    IF baseObjTy.k = "MetaType" THEN baseObjTy.a[1] ELSE baseObjTy

\* simplifyMemberConstraint, lines 2508-2701, with the base type simplified.
memberOfBase(cs, constraint, baseTy, baseObjTy, instanceTy, lookup, asserts) ==
    IF instanceTy.k = "TypeVariable" THEN MemberRes("Unsolved", cs, <<>>)
    ELSE IF baseObjTy.k = "Tuple"
    THEN tupleMember(cs, constraint, baseTy,
                     tupleFieldIdx(baseObjTy, constraint.member))
    ELSE IF constraint.member = "init"
    THEN constructorMember(cs, constraint, baseTy, lookup,
                           isExistentialType(instanceTy), asserts)
    ELSE IF constraint.kind = "TypeMember"
    THEN typeMember(cs, constraint, baseTy, lookup, asserts)
    ELSE valueMember(cs, constraint, baseTy, lookup,
                     isExistentialType(instanceTy), baseObjTy.k = "MetaType",
                     baseObjTy.k = "Module", isDynamicLookupProtocol(instanceTy),
                     asserts)

\* simplifyMemberConstraint, lines 2497-2498
memberOfSimplifiedBase(cs, constraint, baseTy, lookup, asserts) ==
    memberOfBase(cs, constraint, baseTy, getRValueType(baseTy),
                 instanceTypeOf(getRValueType(baseTy)), lookup, asserts)

\* ConstraintSystem::simplifyMemberConstraint.  lookup is what
\* lookupConstructors, lookupMemberType or lookupMember finds, whichever the
\* constraint comes to ask.
simplifyMemberConstraint(cs, constraint, lookup, asserts) ==
    memberOfSimplifiedBase(cs, constraint, simplifyType(cs, constraint.first),
                           lookup, asserts)

\* A ConstraintSystem as constructed, with the type variables created.
NewConstraintSystem(canBind, solving) ==
    [ParentOrFixed |-> [v \in TypeVarIds |-> Parent(v)],
     canBindToLValue |-> canBind,
     Constraints |-> <<>>,
     failedConstraint |-> NoConstraint,
     solverState |-> solving,
     savedBindings |-> <<>>,
     retiredConstraints |-> <<>>,
     constraintRestrictions |-> <<>>,
     resolvedOverloadSets |-> <<>>]

(***************************************************************************)
(* The search over one disjunction.  The solver is not part of the source  *)
(* modelled here; it is taken from its description: simplify to a fixed    *)
(* point, then for each alternative of the first disjunction, in order,    *)
(* open a solver scope, add the alternative, simplify, collect a solution  *)
(* if the system is solved, and leave the scope.                           *)
(***************************************************************************)
\* ConstraintSystem::hasFreeTypeVariables
hasFreeTypeVariables(cs) ==
    \E v \in TypeVarIds : cs.ParentOrFixed[v] = Parent(v)

\* SolverScope's constructor.
SolverScope(cs) ==
    [numSavedBindings |-> Len(cs.savedBindings),
     numConstraintRestrictions |-> Len(cs.constraintRestrictions),
     Constraints |-> cs.Constraints,
     retiredConstraints |-> cs.retiredConstraints,
     resolvedOverloadSets |-> cs.resolvedOverloadSets,
     ParentOrFixed |-> cs.ParentOrFixed]

putBack(restored, scope) ==
    [restored EXCEPT
        !.Constraints = scope.Constraints,
        !.retiredConstraints = scope.retiredConstraints,
        !.resolvedOverloadSets = scope.resolvedOverloadSets,
        !.constraintRestrictions = SubSeq(@, 1, scope.numConstraintRestrictions),
        !.failedConstraint = NoConstraint]

\* SolverScope's destructor.
leaveSolverScope(cs, scope) ==
    putBack(restoreTypeVariableBindings(
                cs, Len(cs.savedBindings) - scope.numSavedBindings),
            scope)

\* One pass of simplify over the constraints that were unsolved: each is
\* added again, and the pass stops at a failure.
RECURSIVE simplifyExisting(_, _, _, _)
simplifyExisting(cs, existing, i, solvedAny) ==
    IF i > Len(existing) \/ cs.failedConstraint # NoConstraint
    THEN [cs |-> cs, solvedAny |-> solvedAny]
    ELSE simplifyExisting(callAddConstraint(cs, existing[i]).cs, existing,
                          i + 1,
                          solvedAny \/ callAddConstraint(cs, existing[i]).r)

\* simplify: passes are made as long as one solves a constraint.
RECURSIVE simplifyPasses(_, _)
simplifyPasses(pass, fuel) ==
    IF ~pass.solvedAny \/ pass.cs.failedConstraint # NoConstraint \/ fuel = 0
    THEN pass.cs
    ELSE simplifyPasses(
             simplifyExisting([pass.cs EXCEPT !.Constraints = <<>>],
                              pass.cs.Constraints, 1, FALSE),
             fuel - 1)

simplify(cs) ==
    simplifyPasses([cs |-> cs, solvedAny |-> TRUE], Len(cs.Constraints) + 1)

\* The position of the first disjunction among the constraints, or 0.
firstDisjunction(cs) ==
    IF \E k \in 1..Len(cs.Constraints) : cs.Constraints[k].kind = "Disjunction"
    THEN Min({k \in 1..Len(cs.Constraints) :
                 cs.Constraints[k].kind = "Disjunction"})
    ELSE 0

withoutConstraint(cs, k) ==
    [cs EXCEPT !.Constraints = SubSeq(@, 1, k - 1) \o SubSeq(@, k + 1, Len(@))]

\* The alternatives the search has to try.
alternativesOf(cs) ==
    IF firstDisjunction(cs) = 0 THEN <<>>
    ELSE cs.Constraints[firstDisjunction(cs)].nested

\* One alternative: the disjunction is taken out, the alternative added
\* and the system simplified.
tryAlternative(cs, i) ==
    simplify(callAddConstraint(withoutConstraint(cs, firstDisjunction(cs)),
                               alternativesOf(cs)[i]).cs)

\* The system has a solution: nothing failed, nothing is left to solve and
\* no type variable is free.
isSolved(cs) ==
    /\ cs.failedConstraint = NoConstraint
    /\ cs.Constraints = <<>>
    /\ ~hasFreeTypeVariables(cs)

(***************************************************************************)
(* Ranking: SolutionDiff and compareSolutions.  A solution holds its fixed *)
(* score, the overload choice made at each locator and the type bound to   *)
(* each type variable.  The declarations compared are functions declared   *)
(* at module level, neither generic nor imported, so opening their types   *)
(* changes nothing and they have no self type.  The types compared are     *)
(* concrete, and a constraint between them is settled when it is added:    *)
(* the solver finds a solution unless the constraint failed.               *)
(***************************************************************************)
ArchetypeType(n) == MkType("Archetype", n, 0, {}, <<>>, <<>>)

\* A function declaration, by its name and the type of its input.
FuncDecl(name, input) ==
    [name |-> name, input |-> input, hasClangNode |-> FALSE,
     isTypeDecl |-> FALSE, isAbstractFunctionDecl |-> TRUE]

RECURSIVE hasTypeVariable(_)
hasTypeVariable(type) ==
    \/ type.k = "TypeVariable"
    \/ \E i \in 1..Len(type.a) : hasTypeVariable(type.a[i])

\* stripInitializers
RECURSIVE stripInitializers(_)
stripInitializers(type) ==
    [type EXCEPT !.a = [i \in 1..Len(type.a) |-> stripInitializers(type.a[i])],
                 !.f = [i \in 1..Len(type.f) |-> [type.f[i] EXCEPT !.init = FALSE]]]

\* TypeBase::getUnlabeledType: the names of tuple elements are dropped.
RECURSIVE getUnlabeledType(_)
getUnlabeledType(type) ==
    [type EXCEPT !.a = [i \in 1..Len(type.a) |-> getUnlabeledType(type.a[i])],
                 !.f = [i \in 1..Len(type.f) |-> [type.f[i] EXCEPT !.name = ""]]]

\* ConstraintSystem::solve, for a system with nothing left to solve: TRUE,
\* no solution, if a constraint failed.
solve(cs) == cs.failedConstraint # NoConstraint

\* A ConstraintSystem made for one question, with the constraint added.
systemWith(kind, type1, type2) ==
    callAddConstraint(NewConstraintSystem([v \in TypeVarIds |-> FALSE], FALSE),
                      RelationalConstraint(kind, type1, type2, NoLocator)).cs

\* TypeChecker::isSubtypeOf
isSubtypeOf(type1, type2) == ~solve(systemWith("Subtype", type1, type2))

\* TypeChecker::isConvertibleTo
isConvertibleTo(type1, type2) == ~solve(systemWith("Conversion", type1, type2))

\* isDeclAsSpecializedAs: never for declarations of different kinds or for
\* a type; for two functions, neither generic nor a witness of the other,
\* the input of the first is a subtype of the input of the second.
isDeclAsSpecializedAs(decl1, decl2) ==
    /\ decl1.isAbstractFunctionDecl = decl2.isAbstractFunctionDecl
    /\ ~decl1.isTypeDecl
    /\ ~solve(systemWith("Subtype", decl1.input, decl2.input))

\* sameDecl
sameDecl(decl1, decl2) ==
    \/ decl1 = decl2
    \/ decl1.isTypeDecl /\ decl2.isTypeDecl

\* sameOverloadChoice
sameOverloadChoice(x, y) ==
    /\ x.kind = y.kind
    /\ \/ x.kind = "BaseType"
       \/ x.kind \in {"Decl", "DeclViaDynamic", "TypeDecl"} /\ sameDecl(x.decl[1], y.decl[1])
       \/ x.kind = "TupleIndex" /\ x.index = y.index

\* A solution.
Solution(fixedScore, overloadChoices, typeBindings) ==
    [fixedScore |-> fixedScore, overloadChoices |-> overloadChoices,
     typeBindings |-> typeBindings]

\* SolutionDiff's constructor, lines 3842-3896: what all the solutions have
\* a value for, with the values in the order of the solutions.
commonKeys(maps) == {k \in DOMAIN maps[1] : \A i \in 1..Len(maps) : k \in DOMAIN maps[i]}
valuesAt(maps, k) == [i \in 1..Len(maps) |-> maps[i][k]]

\* SolutionDiff's constructor, lines 3900-3915: the type variable goes to
\* the diff if some binding differs from the first.
TypeBindingDiffs(typeVar, bindings) ==
    IF \E i \in 1..Len(bindings) : bindings[i] # bindings[1]
    THEN <<[typeVar |-> typeVar, bindings |-> bindings]>>
    ELSE <<>>

\* SolutionDiff's constructor, lines 3919-3934: the locator goes to the
\* diff once for each choice that is not the same as the first.
RECURSIVE OverloadDiffs(_, _, _)
OverloadDiffs(locator, choices, i) ==
    IF i > Len(choices) THEN <<>>
    ELSE (IF sameOverloadChoice(choices[1], choices[i]) THEN <<>>
          ELSE <<[locator |-> locator, choices |-> choices]>>)
         \o OverloadDiffs(locator, choices, i + 1)

\* The diffs of the keys of S one after the other; the order stands for
\* the order in which the map is walked.
RECURSIVE ConcatOver(_, _)
ConcatOver(S, D) ==
    IF S = {} THEN <<>>
    ELSE LET k == CHOOSE x \in S : \A y \in S : D[x].order <= D[y].order
         IN  D[k].diffs \o ConcatOver(S \ {k}, D)

\* SolutionDiff::SolutionDiff
SolutionDiff(sols) ==
    IF Len(sols) <= 1 THEN [typeBindings |-> <<>>, overloads |-> <<>>]
    ELSE [typeBindings |->
              ConcatOver(commonKeys([i \in 1..Len(sols) |-> sols[i].typeBindings]),
                  [v \in commonKeys([i \in 1..Len(sols) |-> sols[i].typeBindings]) |->
                      [order |-> v,
                       diffs |-> TypeBindingDiffs(v,
                                     valuesAt([i \in 1..Len(sols) |->
                                                  sols[i].typeBindings], v))]]),
          overloads |->
              ConcatOver(commonKeys([i \in 1..Len(sols) |-> sols[i].overloadChoices]),
                  [l \in commonKeys([i \in 1..Len(sols) |-> sols[i].overloadChoices]) |->
                      [order |-> l,
                       diffs |-> OverloadDiffs(l,
                                     valuesAt([i \in 1..Len(sols) |->
                                                  sols[i].overloadChoices], l), 1)]])]

\* compareSolutions keeps two scores and whether the solutions are
\* identical so far.
Scores(score1, score2, identical) ==
    [score1 |-> score1, score2 |-> score2, identical |-> identical]

addScore1(acc, better) == IF better THEN [acc EXCEPT !.score1 = @ + 1] ELSE acc
addScore2(acc, better) == IF better THEN [acc EXCEPT !.score2 = @ + 1] ELSE acc
notIdentical(acc) == [acc EXCEPT !.identical = FALSE]

\* compareSolutions, lines 3597-3610: of two imported declarations, one a
\* type and one a function, the function is preferred.
preferClangFunction(acc, decl1, decl2) ==
    IF /\ decl1.hasClangNode
       /\ decl2.hasClangNode
       /\ \/ decl1.isTypeDecl /\ decl2.isAbstractFunctionDecl
          \/ decl1.isAbstractFunctionDecl /\ decl2.isTypeDecl
    THEN (IF decl1.isTypeDecl THEN addScore2(acc, TRUE) ELSE addScore1(acc, TRUE))
    ELSE acc

\* A comparison of overloads that does not ask which declaration is more
\* specialized.
compareOverload_IgnoresSpecialization(acc, choice1, choice2) ==
    IF sameOverloadChoice(choice1, choice2) THEN acc ELSE notIdentical(acc)

\* compareSolutions, lines 3553-3614: one overload of the diff.
compareOverload(acc, choice1, choice2) ==
    IF sameOverloadChoice(choice1, choice2) THEN acc
    ELSE IF choice1.kind # choice2.kind
    THEN (IF choice1.kind = "Decl" /\ choice2.kind = "DeclViaDynamic"
          THEN addScore1(notIdentical(acc), TRUE)
          ELSE IF choice1.kind = "DeclViaDynamic" /\ choice2.kind = "Decl"
          THEN addScore2(notIdentical(acc), TRUE)
          ELSE notIdentical(acc))
    ELSE IF choice1.kind \in {"TupleIndex", "TypeDecl"} THEN notIdentical(acc)
    ELSE preferClangFunction(
             addScore2(addScore1(notIdentical(acc),
                           isDeclAsSpecializedAs(choice1.decl[1], choice2.decl[1])),
                       isDeclAsSpecializedAs(choice2.decl[1], choice1.decl[1])),
             choice1.decl[1], choice2.decl[1])

\* compareSolutions, lines 3662-3674: the unlabeled form of a type is
\* preferred; the loop goes on without a word on identical.
preferUnlabeled(acc, type1, type2) ==
    IF getUnlabeledType(type1) = getUnlabeledType(type2)
    THEN (IF type1 = getUnlabeledType(type1) THEN addScore1(acc, TRUE)
          ELSE IF type2 = getUnlabeledType(type2) THEN addScore2(acc, TRUE)
          ELSE notIdentical(acc))
    ELSE notIdentical(acc)

\* compareSolutions, lines 3684-3704: conversion, then concrete over
\* archetype.
compareConvertible(acc, type1, type2, type1Better, type2Better) ==
    IF type1Better \/ type2Better
    THEN addScore2(addScore1(acc, type1Better), type2Better)
    ELSE IF (type1.k = "Archetype") # (type2.k = "Archetype")
    THEN (IF type1.k = "Archetype" THEN addScore2(acc, TRUE)
          ELSE addScore1(acc, TRUE))
    ELSE acc

\* compareSolutions, lines 3653-3704: two bindings that differ and hold no
\* type variable, with what isSubtypeOf says of them.
compareSubtypes(acc, type1, type2, type1Better, type2Better) ==
    IF type1Better \/ type2Better
    THEN preferUnlabeled(addScore2(addScore1(acc, type1Better), type2Better),
                         type1, type2)
    ELSE compareConvertible(notIdentical(acc), type1, type2,
                            isConvertibleTo(type1, type2),
                            isConvertibleTo(type2, type1))

\* compareSolutions, lines 3638-3704: two bindings with the initializers
\* stripped.
compareStripped(acc, type1, type2) ==
    IF type1 = type2 THEN acc
    ELSE IF hasTypeVariable(type1) \/ hasTypeVariable(type2)
    THEN notIdentical(acc)
    ELSE compareSubtypes(acc, type1, type2, isSubtypeOf(type1, type2),
                         isSubtypeOf(type2, type1))

\* compareSolutions, lines 3624-3705: one type binding of the diff.
compareBinding(acc, prefers, type1, type2) ==
    IF ~prefers THEN acc
    ELSE compareStripped(acc, stripInitializers(type1), stripInitializers(type2))

RECURSIVE compareOverloads(_, _, _, _, _)
compareOverloads(acc, overloads, i, idx1, idx2) ==
    IF i > Len(overloads) THEN acc
    ELSE compareOverloads(
             compareOverload(acc, overloads[i].choices[idx1 + 1],
                             overloads[i].choices[idx2 + 1]),
             overloads, i + 1, idx1, idx2)

RECURSIVE compareBindings(_, _, _, _, _, _)
compareBindings(acc, typeBindings, i, idx1, idx2, prefers) ==
    IF i > Len(typeBindings) THEN acc
    ELSE compareBindings(
             compareBinding(acc, prefers[typeBindings[i].typeVar],
                            typeBindings[i].bindings[idx1 + 1],
                            typeBindings[i].bindings[idx2 + 1]),
             typeBindings, i + 1, idx1, idx2, prefers)

\* A verdict that gives equal scores to the first solution.
verdict_FirstWinsTies(acc, idx1, idx2) ==
    [called |-> TRUE,
     result |-> IF acc.score1 >= acc.score2 THEN "Better" ELSE "Worse",
     score1 |-> acc.score1, score2 |-> acc.score2, identical |-> acc.identical,
     idx1 |-> idx1, idx2 |-> idx2]

\* compareSolutions, lines 3708-3717: the verdict, with the scores and the
\* flag it was read from and the indices it is about.
verdict(acc, idx1, idx2) ==
    [called |-> TRUE,
     result |-> IF acc.score1 # acc.score2
                THEN (IF acc.score1 > acc.score2 THEN "Better" ELSE "Worse")
                ELSE IF acc.identical THEN "Identical" ELSE "Incomparable",
     score1 |-> acc.score1, score2 |-> acc.score2, identical |-> acc.identical,
     idx1 |-> idx1, idx2 |-> idx2]

\* ConstraintSystem::compareSolutions.  idx1 and idx2 are 0-based.
compareSolutions(sols, diff, idx1, idx2, prefers) ==
    verdict(compareBindings(
                compareOverloads(Scores(sols[idx1 + 1].fixedScore,
                                        sols[idx2 + 1].fixedScore, TRUE),
                                 diff.overloads, 1, idx1, idx2),
                diff.typeBindings, 1, idx1, idx2, prefers),
            idx1, idx2)

(***************************************************************************)
(* The task-group test.  A test function makes a Waiter, opens a           *)
(* discarding task group whose body adds until child tasks and returns     *)
(* until, and prints what the group returned.  Each child task sleeps and  *)
(* then calls increment on the Waiter.  until is 100 in the test; the      *)
(* model takes a smaller number.  The task group itself belongs to the     *)
(* concurrency runtime: it returns the value of its body once the body has *)
(* returned and every child task has finished.                             *)
(***************************************************************************)
until == 3

\* Waiter.init
Waiter(n) == [until |-> n, count |-> 0, cc |-> "nil", resumed |-> FALSE]

\* An increment that does not count.
increment_NoCount(w) ==
    w

\* Waiter.increment: the continuation, if there is one, is resumed when the
\* count reaches until.
increment(w) ==
    [w EXCEPT !.count = w.count + 1,
              !.resumed = @ \/ (w.until <= w.count + 1 /\ w.cc # "nil")]

NoTasks == [n \in 1..until |-> "none"]

NumTasks(state) == Cardinality({n \in 1..until : tasks[n] = state})

\* The implicit wait at the end of the scope of the group.
groupIsEmpty == \A n \in 1..until : tasks[n] \in {"none", "finished"}

NoResult == [returned |-> FALSE, value |-> 0, finished |-> 0]

(***************************************************************************)
(* The state before any call, and the state of a subsystem that a          *)
(* specification does not exercise.                                        *)
(***************************************************************************)
IdleGroup ==
    /\ test = 0
    /\ mainPc = ""
    /\ tasks = NoTasks
    /\ waiter = Waiter(0)
    /\ bodyResult = NoResult
    /\ allTasks = 0
    /\ printed = <<>>

NoShuffle == [done |-> FALSE, failed |-> FALSE, sources |-> <<>>,
              variadicArgs |-> <<>>, consumed |-> <<>>]

IdleShuffle ==
    /\ fromTuple = TupleType(<<>>)
    /\ toTuple = TupleType(<<>>)
    /\ sourceLabelsAreMandatory = FALSE
    /\ shuffle = NoShuffle

NotCalled == [called |-> FALSE, result |-> Nothing, viable |-> <<>>,
              losers |-> <<>>]

IdleBest ==
    /\ numViable = 0
    /\ compared = <<>>
    /\ minimize = FALSE
    /\ viable = <<>>
    /\ best = NotCalled

IdleStore ==
    /\ constraintSystem = NewConstraintSystem([v \in TypeVarIds |-> FALSE], FALSE)
    /\ scopes = <<>>
    /\ history = <<>>

IdleProbe ==
    /\ probeType1 = NoType
    /\ probeType2 = NoType
    /\ probeFlags = TMF_None
    /\ probeLocator = NoLocator
    /\ probed = <<>>

NotResolved ==
    [called |-> FALSE, r |-> "",
     cs |-> NewConstraintSystem([v \in TypeVarIds |-> FALSE], FALSE),
     choices |-> <<>>]

IdleMember ==
    /\ memberConstraint = NoConstraint
    /\ lookupResult = <<>>
    /\ assertsEnabled = FALSE
    /\ memberResult = NotResolved

NotCompared ==
    [called |-> FALSE, result |-> "", score1 |-> 0, score2 |-> 0,
     identical |-> TRUE, idx1 |-> 0, idx2 |-> 0]

IdleCompare ==
    /\ solutions = <<>>
    /\ prefersSubtypeBinding = <<>>
    /\ comparison = NotCompared

(***************************************************************************)
(* findBestSolution as a state machine.  The initial state draws the       *)
(* number of solutions, the flag and the comparator's outcomes; the        *)
(* outcomes for (i, j) and (j, i) mirror each other, as compareSolutions   *)
(* computes them from the same score pair, and are otherwise free: no      *)
(* transitivity is assumed.                                                *)
(***************************************************************************)
Mirror(c) == IF c = "Better" THEN "Worse"
             ELSE IF c = "Worse" THEN "Better" ELSE c

Pairs(n) == {p \in (0..(n - 1)) \X (0..(n - 1)) : p[1] # p[2]}

Comparators(n) ==
    {f \in [Pairs(n) -> SolutionCompareResult] :
        \A p \in Pairs(n) : f[<<p[2], p[1]>>] = Mirror(f[p])}

InitBest ==
    /\ IdleGroup
    /\ numViable \in 0..MaxSolutions
    /\ compared \in Comparators(numViable)
    /\ minimize \in BOOLEAN
    /\ viable = [i \in 1..numViable |-> i - 1]
    /\ best = NotCalled
    /\ IdleShuffle
    /\ IdleStore
    /\ IdleProbe
    /\ IdleMember
    /\ IdleCompare

FindBestCall ==
    /\ ~best.called
    /\ best' = findBestSolution(compared, viable, minimize)
    /\ viable' = best'.viable
    /\ UNCHANGED <<numViable, compared, minimize, shuffleVars, storeVars, probeVars, memberVars, compareVars, groupVars>>

NextBest == FindBestCall

SpecBest == InitBest /\ [][NextBest]_vars

(***************************************************************************)
(* The tuple shuffle as a state machine: the inputs are drawn in the       *)
(* initial state and ShuffleCall applies the function to them.             *)
(***************************************************************************)
TupleNames == {"", "x", "y"}

SeqsUpTo(S, n) == UNION {[1..m -> S] : m \in 0..n}

\* Source elements: only the name matters to the shuffle.
SourceElts == {TupleTypeElt(nm, IntType, FALSE, FALSE) : nm \in TupleNames}
\* Destination elements: name, variadic bit and default value.
DestElts == {TupleTypeElt(nm, IntType, va, init) :
                nm \in TupleNames, va \in BOOLEAN, init \in BOOLEAN}

SourceTuples == {TupleType(fs) : fs \in SeqsUpTo(SourceElts, MaxTupleLen)}
DestTuples == {TupleType(fs) : fs \in SeqsUpTo(DestElts, MaxTupleLen)}

InitShuffle ==
    /\ IdleGroup
    /\ fromTuple \in SourceTuples
    /\ toTuple \in DestTuples
    /\ sourceLabelsAreMandatory \in BOOLEAN
    /\ shuffle = NoShuffle
    /\ IdleBest
    /\ IdleStore
    /\ IdleProbe
    /\ IdleMember
    /\ IdleCompare

ShuffleCall ==
    /\ ~shuffle.done
    /\ shuffle' = computeTupleShuffle(fromTuple, toTuple, sourceLabelsAreMandatory)
    /\ UNCHANGED <<fromTuple, toTuple, sourceLabelsAreMandatory, bestVars,
                   storeVars, probeVars, memberVars, compareVars, groupVars>>

NextShuffle == ShuffleCall

SpecShuffle == InitShuffle /\ [][NextShuffle]_vars

(***************************************************************************)
(* The type-variable store as a state machine.  The constraint system is   *)
(* constructed with NumTypeVars type variables, each with its              *)
(* canBindToLValue option drawn freely.  Solve installs the solver state,  *)
(* from which on bindings are saved; Snapshot and Restore are the          *)
(* constructor and the destructor of a solver scope; MatchTypesCall is one  *)
(* call of matchTypes.  history lists the operations performed, each with  *)
(* the constraint system it found.                                         *)
(***************************************************************************)
MaxCalls == 2
MaxScopes == 1

StoreTypes ==
    {TypeVariableType(v) : v \in TypeVarIds}
        \cup {IntType, LValueType(IntType, QualImplicit)}

StoreKinds == {"BindType", "SameType"}

TypeMatchFlags == {TMF_None, TMF_GenerateConstraints}

NoScope == [numSavedBindings |-> 0, numConstraintRestrictions |-> 0,
            Constraints |-> <<>>, retiredConstraints |-> <<>>,
            ParentOrFixed |-> <<>>]

Operation(op, type1, type2, kind, flags, result, before, scope) ==
    [op |-> op, type1 |-> type1, type2 |-> type2, kind |-> kind,
     flags |-> flags, result |-> result, before |-> before, scope |-> scope]

NumOperations(op) == Cardinality({i \in 1..Len(history) : history[i].op = op})

InitStore ==
    /\ IdleGroup
    /\ \E canBind \in [TypeVarIds -> BOOLEAN] :
           constraintSystem = NewConstraintSystem(canBind, FALSE)
    /\ scopes = <<>>
    /\ history = <<>>
    /\ IdleShuffle
    /\ IdleBest
    /\ IdleProbe
    /\ IdleMember
    /\ IdleCompare

\* ConstraintSystem::solve: the solver state is installed.
Solve ==
    /\ ~constraintSystem.solverState
    /\ constraintSystem' = [constraintSystem EXCEPT !.solverState = TRUE]
    /\ history' = Append(history, Operation("solve", NoType, NoType, "", {}, "",
                                            constraintSystem, NoScope))
    /\ UNCHANGED <<scopes, shuffleVars, bestVars, probeVars, memberVars, compareVars, groupVars>>

\* SolverScope's constructor: the sizes of the solver state's lists are
\* noted.  ParentOrFixed notes the bindings at the snapshot, for reference.
Snapshot ==
    /\ constraintSystem.solverState
    /\ NumOperations("snapshot") < MaxScopes
    /\ LET scope == [numSavedBindings |-> Len(constraintSystem.savedBindings),
                     numConstraintRestrictions |-> Len(constraintSystem.constraintRestrictions),
                     Constraints |-> constraintSystem.Constraints,
                     retiredConstraints |-> constraintSystem.retiredConstraints,
                     resolvedOverloadSets |-> constraintSystem.resolvedOverloadSets,
                     ParentOrFixed |-> constraintSystem.ParentOrFixed]
       IN  /\ scopes' = Append(scopes, scope)
           /\ history' = Append(history, Operation("snapshot", NoType, NoType,
                                                   "", {}, "", constraintSystem, scope))
    /\ UNCHANGED <<constraintSystem, shuffleVars, bestVars, probeVars, memberVars, compareVars, groupVars>>

\* SolverScope's destructor: the bindings saved since the snapshot are
\* restored, the constraint lists are put back and the failure is cleared.
Restore ==
    /\ scopes # <<>>
    /\ LET scope == scopes[Len(scopes)]
           r == restoreTypeVariableBindings(
                    constraintSystem, Len(constraintSystem.savedBindings) - scope.numSavedBindings)
       IN  /\ constraintSystem' = [r EXCEPT
                        !.Constraints = scope.Constraints,
                        !.retiredConstraints = scope.retiredConstraints,
                        !.resolvedOverloadSets = scope.resolvedOverloadSets,
                        !.constraintRestrictions =
                            SubSeq(@, 1, scope.numConstraintRestrictions),
                        !.failedConstraint = NoConstraint]
           /\ history' = Append(history, Operation("restore", NoType, NoType,
                                                   "", {}, "", constraintSystem, scope))
    /\ scopes' = SubSeq(scopes, 1, Len(scopes) - 1)
    /\ UNCHANGED <<shuffleVars, bestVars, probeVars, memberVars, compareVars, groupVars>>

\* One call of matchTypes.
MatchTypesCall ==
    /\ NumOperations("matchTypes") < MaxCalls
    /\ \E type1 \in StoreTypes, type2 \in StoreTypes, kind \in StoreKinds,
          flags \in TypeMatchFlags :
           LET m == callMatchTypes(constraintSystem, type1, type2, kind, flags, NoLocator)
           IN  /\ constraintSystem' = m.cs
               /\ history' = Append(history,
                                    Operation("matchTypes", type1, type2, kind,
                                              flags, m.r, constraintSystem, NoScope))
    /\ UNCHANGED <<scopes, shuffleVars, bestVars, probeVars, memberVars, compareVars, groupVars>>

NextStore == Solve \/ Snapshot \/ Restore \/ MatchTypesCall

SpecStore == InitStore /\ [][NextStore]_vars

(***************************************************************************)
(* matchTypes probed with each match kind in turn on one pair of types,    *)
(* each call starting from the same constraintSystem: probed lists the     *)
(* results, in the order of TypeMatchKind.                                 *)
(***************************************************************************)
ProbeLeaves ==
    {IntType, ClassType("A"), ClassType("B"), ClassType("C"), ClassType("D"),
     TypeVariableType(1), TypeVariableType(2),
     LValueType(IntType, {}), LValueType(IntType, QualImplicit),
     OptionalType(IntType)}

ProbeElts == {TupleTypeElt(nm, ty, FALSE, FALSE) :
                 nm \in {"", "x"}, ty \in {IntType, ClassType("B")}}

ProbeTuples == {TupleType(fs) : fs \in SeqsUpTo(ProbeElts, MaxTupleLen)}

ProbeFunctions ==
    {FunctionType(IntType, r, attrs) :
        r \in {IntType, ClassType("A"), ClassType("B")},
        attrs \in SUBSET {"AutoClosure", "NoReturn"}}

ProbeTypes == ProbeLeaves \cup ProbeTuples \cup ProbeFunctions

ProbeLocators == {NoLocator, <<TRUE, TRUE>>, <<FALSE, FALSE>>}

InitProbe ==
    /\ IdleGroup
    /\ probeType1 \in ProbeTypes
    /\ probeType2 \in ProbeTypes
    /\ probeFlags \in TypeMatchFlags
    /\ probeLocator \in ProbeLocators
    /\ probed = <<>>
    /\ \E canBind \in [TypeVarIds -> BOOLEAN] :
           constraintSystem = NewConstraintSystem(canBind, FALSE)
    /\ scopes = <<>>
    /\ history = <<>>
    /\ IdleShuffle
    /\ IdleBest
    /\ IdleMember
    /\ IdleCompare

Probe(kind, after) == [op |-> "matchTypes", kind |-> kind, after |-> after]

\* matchTypes with the next kind, on the constraint system as it started;
\* history keeps the constraint system as each call left it.
ProbeCall ==
    /\ Len(probed) < Len(TypeMatchKind)
    /\ probed' = Append(probed,
                        callMatchTypes(constraintSystem, probeType1, probeType2,
                                   TypeMatchKind[Len(probed) + 1], probeFlags,
                                   probeLocator).r)
    /\ history' = Append(history,
                         Probe(TypeMatchKind[Len(probed) + 1],
                               callMatchTypes(constraintSystem, probeType1,
                                              probeType2,
                                              TypeMatchKind[Len(probed) + 1],
                                              probeFlags, probeLocator).cs))
    /\ UNCHANGED <<probeType1, probeType2, probeFlags, probeLocator,
                   constraintSystem, scopes, shuffleVars, bestVars, memberVars,
                   compareVars, groupVars>>

NextProbe == ProbeCall

SpecProbe == InitProbe /\ [][NextProbe]_vars

(***************************************************************************)
(* addConstraint as a state machine: constraints are added one after the   *)
(* other to one constraint system, with or without a solver state.  Each   *)
(* entry of history holds the constraint added, what simplifyConstraint    *)
(* says of it on the system as it was, and what addConstraint returned.    *)
(***************************************************************************)
MaxAdds == 3

AddedTypes == {TypeVariableType(1), TypeVariableType(2), IntType, ClassType("A")}

AddedConstraints ==
    {RelationalConstraint(kind, type1, type2, NoLocator) :
        kind \in {"Equal", "Conversion"}, type1 \in AddedTypes,
        type2 \in AddedTypes}

Addition(constraint, simplified, returned, before) ==
    [op |-> "addConstraint", constraint |-> constraint,
     simplified |-> simplified, returned |-> returned, before |-> before]

InitAdd ==
    /\ IdleGroup
    /\ \E solving \in BOOLEAN :
           constraintSystem = NewConstraintSystem([v \in TypeVarIds |-> FALSE],
                                                  solving)
    /\ scopes = <<>>
    /\ history = <<>>
    /\ IdleShuffle
    /\ IdleBest
    /\ IdleProbe
    /\ IdleMember
    /\ IdleCompare

AddConstraintCall ==
    /\ Len(history) < MaxAdds
    /\ \E constraint \in AddedConstraints :
           /\ constraintSystem' = callAddConstraint(constraintSystem, constraint).cs
           /\ history' = Append(history,
                  Addition(constraint,
                           callSimplifyConstraint(constraintSystem, constraint).r,
                           callAddConstraint(constraintSystem, constraint).r,
                           constraintSystem))
    /\ UNCHANGED <<scopes, shuffleVars, bestVars, probeVars, memberVars,
                   compareVars, groupVars>>

\* The pairs of types on which matchTypes leaves the choice between
\* several conversions to the solver.
RestrictedPairs ==
    {<<TupleType(<<TupleTypeElt("", IntType, FALSE, FALSE)>>),
       TupleType(<<TupleTypeElt("x", IntType, FALSE, FALSE)>>)>>,
     <<OptionalType(ClassType("B")), OptionalType(ClassType("A"))>>,
     <<OptionalType(ClassType("A")), OptionalType(ClassType("B"))>>}

RestrictedKinds == {"TrivialSubtype", "Subtype", "Conversion"}

\* The alternatives of the disjunction that matchTypes makes for the pair.
restrictedAlternatives(pair, kind) ==
    alternativesOf(callMatchTypes(
                       NewConstraintSystem([v \in TypeVarIds |-> FALSE], TRUE),
                       pair[1], pair[2], kind, TMF_None, NoLocator).cs)

addAlternative(alternatives) ==
    \E j \in 1..Len(alternatives) :
        /\ constraintSystem' =
               callAddConstraint(constraintSystem, alternatives[j]).cs
        /\ history' = Append(history,
               Addition(alternatives[j],
                        callSimplifyConstraint(constraintSystem, alternatives[j]).r,
                        callAddConstraint(constraintSystem, alternatives[j]).r,
                        constraintSystem))

\* The solver adds one alternative of such a disjunction: a constraint with
\* the conversion restriction it stands for.
AddAlternativeCall ==
    /\ Len(history) < MaxAdds
    /\ constraintSystem.solverState
    /\ \E pair \in RestrictedPairs, kind \in RestrictedKinds :
           addAlternative(restrictedAlternatives(pair, kind))
    /\ UNCHANGED <<scopes, shuffleVars, bestVars, probeVars, memberVars,
                   compareVars, groupVars>>

NextAdd == AddConstraintCall \/ AddAlternativeCall

SpecAdd == InitAdd /\ [][NextAdd]_vars

(***************************************************************************)
(* Bindings of type variables to types that may mention them: each call    *)
(* of matchTypes is between a type variable and a type, at Bind or Equal.  *)
(* A call whose look through the fixed types would never return is not     *)
(* made: it leaves no state behind.                                        *)
(***************************************************************************)
BoundTypes ==
    {TypeVariableType(v) : v \in TypeVarIds}
        \cup {IntType, OptionalType(IntType),
              OptionalType(TypeVariableType(1)),
              LValueType(TypeVariableType(1), QualImplicit)}

\* The loop of getFixedTypeRecursiveHelper from typeVar comes to an end.
RECURSIVE WalkEnds(_, _, _, _)
WalkEnds(cs, typeVar, wantRValue, fuel) ==
    IF getFixedType(cs, typeVar) = NoType THEN TRUE
    ELSE IF (IF wantRValue THEN getRValueType(getFixedType(cs, typeVar))
             ELSE getFixedType(cs, typeVar)).k # "TypeVariable"
    THEN TRUE
    ELSE IF fuel = 0 THEN FALSE
    ELSE WalkEnds(cs, getRValueType(getFixedType(cs, typeVar)).id, wantRValue,
                  fuel - 1)

\* getFixedTypeRecursive(type, wantRValue) returns.
LookThroughEnds(cs, type, wantRValue) ==
    (IF wantRValue THEN getRValueType(type) ELSE type).k = "TypeVariable"
        => WalkEnds(cs, (IF wantRValue THEN getRValueType(type) ELSE type).id,
                    wantRValue, NumTypeVars)

BindCall ==
    /\ NumOperations("matchTypes") < MaxCalls
    /\ \E typeVar \in TypeVarIds, type \in BoundTypes, swapped \in BOOLEAN,
          kind \in StoreKinds :
           /\ LookThroughEnds(constraintSystem, TypeVariableType(typeVar),
                              kind = "SameType")
           /\ LookThroughEnds(constraintSystem, type, kind = "SameType")
           /\ constraintSystem' =
                  callMatchTypes(constraintSystem,
                                 IF swapped THEN type ELSE TypeVariableType(typeVar),
                                 IF swapped THEN TypeVariableType(typeVar) ELSE type,
                                 kind, TMF_None, NoLocator).cs
           /\ history' = Append(history,
                  Operation("matchTypes",
                            IF swapped THEN type ELSE TypeVariableType(typeVar),
                            IF swapped THEN TypeVariableType(typeVar) ELSE type,
                            kind, TMF_None,
                            callMatchTypes(constraintSystem,
                                 IF swapped THEN type ELSE TypeVariableType(typeVar),
                                 IF swapped THEN TypeVariableType(typeVar) ELSE type,
                                 kind, TMF_None, NoLocator).r,
                            constraintSystem, NoScope))
    /\ UNCHANGED <<scopes, shuffleVars, bestVars, probeVars, memberVars,
                   compareVars, groupVars>>

NextBind == BindCall

SpecBind == InitStore /\ [][NextBind]_vars

(***************************************************************************)
(* Conjunctions added among other constraints: as SpecAdd, with            *)
(* conjunctions of one or two nested constraints.                          *)
(***************************************************************************)
createConjunction(constraints, locator) ==
    Constraint("Conjunction", "", NoType, NoType, constraints, locator)

NestedConstraints ==
    {RelationalConstraint("Equal", TypeVariableType(1), IntType, NoLocator),
     RelationalConstraint("Equal", TypeVariableType(2), ClassType("A"), NoLocator),
     RelationalConstraint("Equal", IntType, ClassType("A"), NoLocator),
     RelationalConstraint("Conversion", TypeVariableType(1), ClassType("A"),
                          NoLocator)}

AddedConjunctions ==
    {createConjunction(nested, NoLocator) :
        nested \in UNION {[1..n -> NestedConstraints] : n \in 1..2}}

AddConjunctionCall ==
    /\ Len(history) < MaxAdds
    /\ \E constraint \in AddedConjunctions :
           /\ constraintSystem' = callAddConstraint(constraintSystem, constraint).cs
           /\ history' = Append(history,
                  Addition(constraint,
                           callSimplifyConstraint(constraintSystem, constraint).r,
                           callAddConstraint(constraintSystem, constraint).r,
                           constraintSystem))
    /\ UNCHANGED <<scopes, shuffleVars, bestVars, probeVars, memberVars,
                   compareVars, groupVars>>

NextConjunction == AddConstraintCall \/ AddConjunctionCall

SpecConjunction == InitAdd /\ [][NextConjunction]_vars

(***************************************************************************)
(* The search as a state machine: constraints and one disjunction are      *)
(* added to a fresh system, the solver state is set up, and the            *)
(* alternatives are entered and left one after the other.  solutions       *)
(* collects the solutions found.                                           *)
(***************************************************************************)
MaxAlternatives == 3

SearchVar == TypeVariableType(1)

SearchContexts ==
    {<<RelationalConstraint("Equal", SearchVar, TypeVariableType(2), NoLocator),
       RelationalConstraint("Conversion", SearchVar, to, NoLocator)>> :
        to \in {ClassType("A"), IntType}}

SearchAlternatives ==
    {RelationalConstraint("Equal", SearchVar, type, NoLocator) :
        type \in {IntType, ClassType("A"), ClassType("B")}}
    \cup {RelationalConstraint("Equal", IntType, ClassType("A"), NoLocator)}

SearchDisjunctions ==
    {createDisjunction(alts, NoLocator) :
        alts \in UNION {[1..n -> SearchAlternatives] : n \in 2..MaxAlternatives}}

\* The solution a solved system gives: the type of each type variable.
solutionOf(cs) ==
    Solution(0, <<>>,
             [v \in TypeVarIds |-> simplifyType(cs, TypeVariableType(v))])

Alternative(index, constraint, before) ==
    [op |-> "alternative", index |-> index, constraint |-> constraint,
     before |-> before]

Left(index, solved, before) ==
    [op |-> "leave", index |-> index, solved |-> solved, before |-> before]

InitSearch ==
    /\ IdleGroup
    /\ IdleStore
    /\ IdleShuffle
    /\ IdleBest
    /\ IdleProbe
    /\ IdleMember
    /\ IdleCompare

\* Constraint generation: two constraints and the disjunction are added.
AddDisjunctionCall ==
    /\ NumOperations("addConstraint") = 0
    /\ \E context \in SearchContexts, disjunction \in SearchDisjunctions :
           /\ constraintSystem' =
                  callAddConstraint(
                      callAddConstraint(
                          callAddConstraint(constraintSystem, context[1]).cs,
                          context[2]).cs,
                      disjunction).cs
           /\ history' = Append(history,
                  Addition(disjunction,
                           callSimplifyConstraint(constraintSystem, disjunction).r,
                           FALSE, constraintSystem))
    /\ UNCHANGED <<scopes, shuffleVars, bestVars, probeVars, memberVars,
                   compareVars, groupVars>>

\* The next alternative is entered.
EnterAlternative ==
    /\ constraintSystem.solverState
    /\ scopes = <<>>
    /\ NumOperations("addConstraint") = 1
    /\ constraintSystem.failedConstraint = NoConstraint
    /\ NumOperations("alternative") < Len(alternativesOf(constraintSystem))
    /\ scopes' = <<SolverScope(constraintSystem)>>
    /\ constraintSystem' =
           tryAlternative(constraintSystem, NumOperations("alternative") + 1)
    /\ history' = Append(history,
           Alternative(NumOperations("alternative") + 1,
                       alternativesOf(constraintSystem)[NumOperations("alternative") + 1],
                       constraintSystem))
    /\ UNCHANGED <<shuffleVars, bestVars, probeVars, memberVars, compareVars, groupVars>>

\* The alternative is left: its solution is collected if it has one, and
\* the solver scope is closed.
LeaveAlternative ==
    /\ scopes # <<>>
    /\ history # <<>>
    /\ history[Len(history)].op = "alternative"
    /\ solutions' = IF isSolved(constraintSystem)
                    THEN Append(solutions, solutionOf(constraintSystem))
                    ELSE solutions
    /\ constraintSystem' = leaveSolverScope(constraintSystem, scopes[Len(scopes)])
    /\ scopes' = SubSeq(scopes, 1, Len(scopes) - 1)
    /\ history' = Append(history,
           Left(history[Len(history)].index, isSolved(constraintSystem),
                constraintSystem))
    /\ UNCHANGED <<prefersSubtypeBinding, comparison, shuffleVars, bestVars,
                   probeVars, memberVars, groupVars>>

NextSearch == AddDisjunctionCall \/ Solve \/ EnterAlternative \/ LeaveAlternative

SpecSearch == InitSearch /\ [][NextSearch]_vars

(***************************************************************************)
(* The task-group test as a state machine.  main runs the test without     *)
(* the sleep in the body and then the one with it.  The test function      *)
(* takes the steps AddTask, BodySleeps, BodyReturns, GroupReturns and      *)
(* PrintAllTasks; child task n takes RunTask, WakeTask and IncrementCall.  *)
(***************************************************************************)
InitGroup ==
    /\ test = 1
    /\ mainPc = "enqueue"
    /\ tasks = NoTasks
    /\ waiter = Waiter(until)
    /\ bodyResult = NoResult
    /\ allTasks = 0
    /\ printed = <<>>
    /\ IdleShuffle
    /\ IdleBest
    /\ IdleStore
    /\ IdleProbe
    /\ IdleMember
    /\ IdleCompare

OtherVars == <<shuffleVars, bestVars, storeVars, probeVars, memberVars, compareVars>>

\* group.addTask for the next n of the loop; after the last one the body
\* goes on to its sleep, if the test has one, or to its return.
AddTask ==
    /\ mainPc = "enqueue"
    /\ LET n == until - NumTasks("none") + 1
       IN  /\ tasks' = [tasks EXCEPT ![n] = "enqueued"]
           /\ mainPc' = IF n < until THEN "enqueue"
                    ELSE IF test = 2 THEN "sleep" ELSE "return"
    /\ UNCHANGED <<test, waiter, bodyResult, allTasks, printed, OtherVars>>

\* The sleep of the body of the second test is over.
BodySleeps ==
    /\ mainPc = "sleep"
    /\ mainPc' = "return"
    /\ UNCHANGED <<test, tasks, waiter, bodyResult, allTasks, printed, OtherVars>>

\* return until
BodyReturns ==
    /\ mainPc = "return"
    /\ bodyResult' = [returned |-> TRUE, value |-> until,
                      finished |-> NumTasks("finished")]
    /\ mainPc' = "waitAll"
    /\ UNCHANGED <<test, tasks, waiter, allTasks, printed, OtherVars>>

\* withDiscardingTaskGroup returns.
GroupReturns ==
    /\ mainPc = "waitAll"
    /\ groupIsEmpty
    /\ allTasks' = bodyResult.value
    /\ mainPc' = "print"
    /\ UNCHANGED <<test, tasks, waiter, bodyResult, printed, OtherVars>>

\* print("all tasks: \(allTasks)"), and main goes on to the next test.
PrintAllTasks ==
    /\ mainPc = "print"
    /\ printed' = Append(printed, allTasks)
    /\ test' = test + 1
    /\ mainPc' = IF test = 1 THEN "enqueue" ELSE "exit"
    /\ tasks' = IF test = 1 THEN NoTasks ELSE tasks
    /\ waiter' = IF test = 1 THEN Waiter(until) ELSE waiter
    /\ bodyResult' = IF test = 1 THEN NoResult ELSE bodyResult
    /\ UNCHANGED <<allTasks, OtherVars>>

MainStep == AddTask \/ BodySleeps \/ BodyReturns \/ GroupReturns \/ PrintAllTasks

\* The child task starts and goes to sleep.
RunTask(n) ==
    /\ tasks[n] = "enqueued"
    /\ tasks' = [tasks EXCEPT ![n] = "sleeping"]
    /\ UNCHANGED <<test, mainPc, waiter, bodyResult, allTasks, printed, OtherVars>>

\* Its sleep is over.
WakeTask(n) ==
    /\ tasks[n] = "sleeping"
    /\ tasks' = [tasks EXCEPT ![n] = "awake"]
    /\ UNCHANGED <<test, mainPc, waiter, bodyResult, allTasks, printed, OtherVars>>

\* await waiter.increment(), after which the child task has finished.
IncrementCall(n) ==
    /\ tasks[n] = "awake"
    /\ waiter' = increment(waiter)
    /\ tasks' = [tasks EXCEPT ![n] = "finished"]
    /\ UNCHANGED <<test, mainPc, bodyResult, allTasks, printed, OtherVars>>

ChildStep(n) == RunTask(n) \/ WakeTask(n) \/ IncrementCall(n)

NextGroup == MainStep \/ \E n \in 1..until : ChildStep(n)

SpecGroup == InitGroup /\ [][NextGroup]_vars

\* The scheduler runs every task that can run, and every sleep ends.
SpecGroupLive ==
    /\ SpecGroup
    /\ WF_vars(MainStep)
    /\ \A n \in 1..until : WF_vars(ChildStep(n))

(***************************************************************************)
(* simplifyMemberConstraint as a state machine: the constraint, the        *)
(* constraint system, what lookup finds and the build are drawn in the     *)
(* initial state, and the one action is the call.  The constraint system   *)
(* the call leaves behind is held in memberResult, constraintSystem stays  *)
(* the one it started from.                                                *)
(***************************************************************************)
MaxLookup == 2

MemberTuple ==
    TupleType(<<TupleTypeElt("x", IntType, FALSE, FALSE),
                TupleTypeElt("", IntType, FALSE, FALSE)>>)

MemberBases ==
    {TypeVariableType(1), MetaTypeType(TypeVariableType(1)),
     MemberTuple, LValueType(MemberTuple, QualImplicit),
     IntType, LValueType(IntType, QualImplicit), MetaTypeType(IntType),
     ProtocolType("P"), MetaTypeType(ProtocolType("P")),
     ProtocolType("DynamicLookup"), MetaTypeType(ProtocolType("DynamicLookup")),
     ModuleType("M")}

MemberNames == {"init", "x", "0", "2"}

Decls == {ValueDecl(i, m, f, a) : i \in BOOLEAN, m \in BOOLEAN, f \in BOOLEAN, a \in BOOLEAN}

LookupResults == SeqsUpTo(Decls, MaxLookup)

\* The constraint systems a member constraint is simplified in: the first
\* type variable is unbound or bound to Int, the second, the member's type,
\* is unbound and can bind to an lvalue.
MemberSystems ==
    {NewConstraintSystem([v \in TypeVarIds |-> v # 1], FALSE),
     assignFixedType(NewConstraintSystem([v \in TypeVarIds |-> v # 1], FALSE),
                     1, IntType)}

InitMember ==
    /\ IdleGroup
    /\ \E kind \in {"ValueMember", "TypeMember"}, base \in MemberBases,
          name \in MemberNames :
           memberConstraint = MemberConstraint(kind, base, TypeVariableType(2),
                                               name, NoLocator)
    /\ lookupResult \in LookupResults
    /\ assertsEnabled \in BOOLEAN
    /\ constraintSystem \in MemberSystems
    /\ memberResult = NotResolved
    /\ scopes = <<>>
    /\ history = <<>>
    /\ IdleShuffle
    /\ IdleBest
    /\ IdleProbe
    /\ IdleCompare

MemberCall ==
    /\ ~memberResult.called
    /\ memberResult' = simplifyMemberConstraint(constraintSystem, memberConstraint,
                                                lookupResult, assertsEnabled)
    /\ UNCHANGED <<memberConstraint, lookupResult, assertsEnabled, storeVars,
                   shuffleVars, bestVars, probeVars, compareVars, groupVars>>

NextMember == MemberCall

SpecMember == InitMember /\ [][NextMember]_vars

(***************************************************************************)
(* compareSolutions as a state machine: two solutions and the flags of the *)
(* type variables are drawn in the initial state; the action compares the  *)
(* two, in either order, on the diff of the solutions, and findBestSolution *)
(* ranks them.                                                             *)
(***************************************************************************)
MaxFixedScore == 1

CompareLocators == {1}
CompareTypeVars == {1}

CompareDecls ==
    {FuncDecl("f", ClassType("B")), FuncDecl("f", ClassType("A")),
     FuncDecl("f", IntType),
     FuncDecl("f", TupleType(<<TupleTypeElt("", IntType, FALSE, FALSE),
                               TupleTypeElt("", IntType, FALSE, FALSE)>>)),
     FuncDecl("f", TupleType(<<TupleTypeElt("x", IntType, FALSE, FALSE),
                               TupleTypeElt("y", IntType, FALSE, FALSE)>>))}

CompareChoices ==
    {OverloadChoice("Decl", NoType, <<d>>, -1) : d \in CompareDecls}
    \cup {OverloadChoice("DeclViaDynamic", NoType,
                         <<FuncDecl("f", ClassType("B"))>>, -1)}
    \cup {OverloadChoice("TupleIndex", NoType, <<>>, i) : i \in 0..1}

CompareBindings ==
    {IntType, ClassType("A"), ClassType("B"), ArchetypeType("T"),
     TypeVariableType(2),
     TupleType(<<TupleTypeElt("", IntType, FALSE, FALSE),
                 TupleTypeElt("", IntType, FALSE, FALSE)>>),
     TupleType(<<TupleTypeElt("x", IntType, FALSE, FALSE),
                 TupleTypeElt("y", IntType, FALSE, FALSE)>>),
     TupleType(<<TupleTypeElt("x", IntType, FALSE, FALSE),
                 TupleTypeElt("y", IntType, FALSE, TRUE)>>)}

CompareSolutions ==
    {Solution(score, choices, bindings) :
        score \in 0..MaxFixedScore,
        choices \in [CompareLocators -> CompareChoices],
        bindings \in [CompareTypeVars -> CompareBindings]}

\* What compareSolutions says of each pair of the solutions.
ComparedOf(sols, prefers) ==
    [p \in Pairs(Len(sols)) |->
        compareSolutions(sols, SolutionDiff(sols), p[1], p[2], prefers).result]

InitCompare ==
    /\ IdleGroup
    /\ solutions \in [1..2 -> CompareSolutions]
    /\ prefersSubtypeBinding \in [CompareTypeVars -> BOOLEAN]
    /\ comparison = NotCompared
    /\ numViable = Len(solutions)
    /\ compared = ComparedOf(solutions, prefersSubtypeBinding)
    /\ minimize = FALSE
    /\ viable = [i \in 1..numViable |-> i - 1]
    /\ best = NotCalled
    /\ IdleShuffle
    /\ IdleStore
    /\ IdleProbe
    /\ IdleMember

CompareCall ==
    /\ ~comparison.called
    /\ \E idx1 \in 0..(Len(solutions) - 1), idx2 \in 0..(Len(solutions) - 1) :
           /\ idx1 # idx2
           /\ comparison' = compareSolutions(solutions, SolutionDiff(solutions),
                                              idx1, idx2, prefersSubtypeBinding)
    /\ UNCHANGED <<solutions, prefersSubtypeBinding, shuffleVars, bestVars,
                   storeVars, probeVars, memberVars, groupVars>>

\* findBestSolution on the solutions is FindBestCall, with compared holding
\* what compareSolutions says.  It is called without minimize, which
\* matters to the list left behind only.
NextCompare == CompareCall \/ FindBestCall

SpecCompare == InitCompare /\ [][NextCompare]_vars

(***************************************************************************)
(* The diff of several solutions: MaxSolutions solutions over one overload *)
(* locator and one type variable are drawn, and the action compares two    *)
(* of them on the diff of them all.                                        *)
(***************************************************************************)
DiffChoices ==
    {OverloadChoice("Decl", NoType, <<FuncDecl("f", ClassType("B"))>>, -1),
     OverloadChoice("Decl", NoType, <<FuncDecl("f", ClassType("A"))>>, -1),
     OverloadChoice("TupleIndex", NoType, <<>>, 0)}

DiffBindings == {IntType, ClassType("A")}

DiffSolutions ==
    {Solution(score, choices, bindings) :
        score \in 0..MaxFixedScore,
        choices \in [CompareLocators -> DiffChoices],
        bindings \in [CompareTypeVars -> DiffBindings]}

InitDiff ==
    /\ IdleGroup
    /\ solutions \in [1..MaxSolutions -> DiffSolutions]
    /\ prefersSubtypeBinding \in [CompareTypeVars -> BOOLEAN]
    /\ comparison = NotCompared
    /\ IdleBest
    /\ IdleShuffle
    /\ IdleStore
    /\ IdleProbe
    /\ IdleMember

NextDiff == CompareCall

SpecDiff == InitDiff /\ [][NextDiff]_vars

(***************************************************************************)
(* Claims about computeTupleShuffle.                                       *)
(***************************************************************************)
\* (x: Int, Int)
Tuple_xInt_Int == TupleType(<<TupleTypeElt("x", IntType, FALSE, FALSE),
                             TupleTypeElt("", IntType, FALSE, FALSE)>>)
\* (Int, x: Int)
Tuple_Int_xInt == TupleType(<<TupleTypeElt("", IntType, FALSE, FALSE),
                             TupleTypeElt("x", IntType, FALSE, FALSE)>>)
\* (Int, Int)
Tuple_Int_Int == TupleType(<<TupleTypeElt("", IntType, FALSE, FALSE),
                            TupleTypeElt("", IntType, FALSE, FALSE)>>)

\* C2, as stated: shuffling (x: Int, Int) into (Int, x: Int) reports failure.
C2_ShuffleIntoSwappedLabelFails ==
    (shuffle.done /\ fromTuple = Tuple_xInt_Int /\ toTuple = Tuple_Int_xInt)
        => shuffle.failed

\* C2, amended: shuffling (x: Int, Int) into (Int, x: Int) succeeds: the named
\* destination element takes the source element named x and the unnamed one
\* takes the remaining source element, sources = [1, 0], no variadic arguments.
C2_ShuffleIntoSwappedLabelReorders ==
    (shuffle.done /\ fromTuple = Tuple_xInt_Int /\ toTuple = Tuple_Int_xInt)
        => (/\ ~shuffle.failed
            /\ shuffle.sources = <<1, 0>>
            /\ shuffle.variadicArgs = <<>>)

C2_Witness ==
    /\ shuffle.done
    /\ fromTuple = Tuple_xInt_Int
    /\ toTuple = Tuple_Int_xInt
    /\ ~shuffle.failed

\* C3, as stated: shuffling (x: Int, Int) into (Int, Int) succeeds with
\* sources = [0, 1] and no variadic arguments, whatever the flag.
C3_ShuffleIntoUnlabeledSucceeds ==
    (shuffle.done /\ fromTuple = Tuple_xInt_Int /\ toTuple = Tuple_Int_Int)
        => (/\ ~shuffle.failed
            /\ shuffle.sources = <<0, 1>>
            /\ shuffle.variadicArgs = <<>>)

\* C3, amended: shuffling (x: Int, Int) into (Int, Int) succeeds with
\* sources = [0, 1] and no variadic arguments when sourceLabelsAreMandatory is
\* false, and reports failure when it is true.
C3_ShuffleIntoUnlabeledByFlag ==
    (shuffle.done /\ fromTuple = Tuple_xInt_Int /\ toTuple = Tuple_Int_Int)
        => IF sourceLabelsAreMandatory
           THEN shuffle.failed
           ELSE /\ ~shuffle.failed
                /\ shuffle.sources = <<0, 1>>
                /\ shuffle.variadicArgs = <<>>

C3_Witness ==
    /\ shuffle.done
    /\ fromTuple = Tuple_xInt_Int
    /\ toTuple = Tuple_Int_Int
    /\ ~sourceLabelsAreMandatory
    /\ shuffle.sources = <<0, 1>>

(***************************************************************************)
(* The shuffle rule, written from its statement: positions are 1-based,    *)
(* the outcome holds 0-based source indices as the function's does.        *)
(***************************************************************************)
\* The pairs matched so far with the one destination k gets by name.
RuleNamedAt(fromF, toF, k, earlier) ==
    IF \E j \in 1..Len(fromF) :
           fromF[j].name = toF[k].name /\ \A p \in earlier : p[2] # j
    THEN earlier \cup
             {<<k, Min({j \in 1..Len(fromF) :
                           fromF[j].name = toF[k].name
                               /\ \A p \in earlier : p[2] # j})>>}
    ELSE earlier

\* The pairs <<destination, source>> matched by name among the first k
\* destination elements.
RECURSIVE RuleNamed(_, _, _)
RuleNamed(fromF, toF, k) ==
    IF k = 0 THEN {}
    ELSE IF toF[k].name = "" THEN RuleNamed(fromF, toF, k - 1)
    ELSE RuleNamedAt(fromF, toF, k, RuleNamed(fromF, toF, k - 1))

\* The positions of s that satisfy Keep, in order.
Positions(s, Keep(_)) ==
    SelectSeq([i \in 1..Len(s) |-> i], Keep)

RuleOutcome(failed, sources, variadicArgs) ==
    [failed |-> failed, sources |-> sources, variadicArgs |-> variadicArgs]

\* The destinations left, in order, take the sources left, in order.  With
\* namedDestinationsToo a named source is not given to a named destination
\* either.
RECURSIVE RulePositional(_, _, _, _, _, _, _, _)
RulePositional(fromF, toF, mandatory, namedDestinationsToo, dests, srcs, sources, variadicArgs) ==
    IF dests = <<>> THEN RuleOutcome(srcs # <<>>, sources, variadicArgs)
    ELSE IF toF[Head(dests)].vararg
    THEN RulePositional(fromF, toF, mandatory, namedDestinationsToo,
             Tail(dests),
             SelectSeq(srcs, LAMBDA j : fromF[j].name # ""),
             [sources EXCEPT ![Head(dests)] = FirstVariadic],
             variadicArgs \o
                 [n \in 1..Len(SelectSeq(srcs, LAMBDA j : fromF[j].name = "")) |->
                     SelectSeq(srcs, LAMBDA j : fromF[j].name = "")[n] - 1])
    ELSE IF srcs = <<>>
    THEN IF toF[Head(dests)].init
         THEN RulePositional(fromF, toF, mandatory, namedDestinationsToo,
                  Tail(dests), srcs,
                  [sources EXCEPT ![Head(dests)] = DefaultInitialize],
                  variadicArgs)
         ELSE RuleOutcome(TRUE, sources, variadicArgs)
    ELSE IF /\ fromF[Head(srcs)].name # ""
            /\ \/ mandatory
               \/ namedDestinationsToo /\ toF[Head(dests)].name # ""
    THEN RuleOutcome(TRUE, sources, variadicArgs)
    ELSE RulePositional(fromF, toF, mandatory, namedDestinationsToo,
             Tail(dests), Tail(srcs),
             [sources EXCEPT ![Head(dests)] = Head(srcs) - 1],
             variadicArgs)

RuleFrom(fromF, toF, mandatory, namedDestinationsToo, named) ==
    RulePositional(fromF, toF, mandatory, namedDestinationsToo,
        Positions(toF, LAMBDA i : \A p \in named : p[1] # i),
        Positions(fromF, LAMBDA j : \A p \in named : p[2] # j),
        [i \in 1..Len(toF) |->
            IF \E p \in named : p[1] = i
            THEN (CHOOSE p \in named : p[1] = i)[2] - 1
            ELSE unassigned],
        <<>>)

ShuffleRule(from, to, mandatory, namedDestinationsToo) ==
    RuleFrom(getFields(from), getFields(to), mandatory, namedDestinationsToo,
             RuleNamed(getFields(from), getFields(to), Len(getFields(to))))

AgreesWith(rule) ==
    /\ shuffle.failed = rule.failed
    /\ ~shuffle.failed =>
           /\ shuffle.sources = rule.sources
           /\ shuffle.variadicArgs = rule.variadicArgs

\* Every variadic element of the destination is its last element.
VariadicIsLast ==
    \A i \in 1..Len(getFields(toTuple)) :
        getFields(toTuple)[i].vararg => i = Len(getFields(toTuple))

C23_NamedSourceAtNamedDestination ==
    (/\ shuffle.done
     /\ ~sourceLabelsAreMandatory
     /\ Len(getFields(fromTuple)) = 1
     /\ Len(getFields(toTuple)) = 1
     /\ getFields(fromTuple)[1].name = "x"
     /\ getFields(toTuple)[1].name = "y"
     /\ ~getFields(toTuple)[1].vararg)
        => shuffle.failed

\* C25: on success every entry of sources is a source index, the
\* default-initialize marker or the first-variadic marker, and none is
\* left unassigned, wherever the variadic destination stands.
C25_EveryDestinationIsResolved ==
    (shuffle.done /\ ~shuffle.failed)
        => \A i \in 1..Len(shuffle.sources) :
               shuffle.sources[i] \in
                   (0..(Len(getFields(fromTuple)) - 1))
                       \cup {DefaultInitialize, FirstVariadic}

\* With the variadic destination last every destination is resolved.
C25_ResolvedWithVariadicLast ==
    VariadicIsLast => C25_EveryDestinationIsResolved

\* An entry left unassigned on success comes after a variadic destination
\* that took the first-variadic marker.
C25_UnassignedAfterVariadic ==
    (shuffle.done /\ ~shuffle.failed)
        => \A i \in 1..Len(shuffle.sources) :
               shuffle.sources[i] = unassigned
                   => \E k \in 1..(i - 1) : shuffle.sources[k] = FirstVariadic

\* The empty tuple into (Int..., Int): success, and the second destination
\* is left unassigned.
C25_EmptyIntoVariadicFirst ==
    (/\ shuffle.done
     /\ fromTuple = TupleType(<<>>)
     /\ toTuple = TupleType(<<TupleTypeElt("", IntType, TRUE, FALSE),
                              TupleTypeElt("", IntType, FALSE, FALSE)>>))
        => /\ ~shuffle.failed
           /\ shuffle.sources = <<FirstVariadic, unassigned>>

\* C26: on success every source index occurs exactly once among the
\* non-negative entries of sources and the entries of variadicArgs, and
\* every source element is marked consumed.
C26_EverySourceConsumedOnce ==
    (shuffle.done /\ ~shuffle.failed)
        => \A j \in 0..(Len(getFields(fromTuple)) - 1) :
               /\ Cardinality({i \in 1..Len(shuffle.sources) :
                                  shuffle.sources[i] = j})
                    + Cardinality({n \in 1..Len(shuffle.variadicArgs) :
                                      shuffle.variadicArgs[n] = j}) = 1
               /\ shuffle.consumed[j + 1]

C26_Witness ==
    /\ shuffle.done
    /\ ~shuffle.failed
    /\ Len(getFields(fromTuple)) = 2
    /\ Len(shuffle.variadicArgs) = 1
    /\ \E i \in 1..Len(shuffle.sources) : shuffle.sources[i] >= 0

(***************************************************************************)
(* Claims about findBestSolution.                                          *)
(***************************************************************************)
Indices == 0..(numViable - 1)

OriginalList == [i \in 1..numViable |-> i - 1]

\* C8: whenever findBestSolution returns an index b for a list of two or more
\* solutions, compareSolutions(b, i) is Better or Identical for every other
\* solution i, and the viable list is left unmodified.
C8_ReturnedBestIsUnbeaten ==
    (best.called /\ numViable >= 2 /\ best.result.some)
        => (/\ best.result.idx \in Indices
            /\ \A i \in Indices \ {best.result.idx} :
                   compared[<<best.result.idx, i>>] \in {"Better", "Identical"}
            /\ viable = OriginalList)

\* A best is returned that is not the first solution, for three solutions.
C8_Witness ==
    /\ best.called
    /\ numViable >= 3
    /\ best.result.some
    /\ best.result.idx # 0

\* C9: when ambiguity is detected with minimize = true, the list left behind
\* holds no solution s that some other solution t of the original list beats
\* (compareSolutions(t, s) = Better).
C9_SweepRemovesEveryDominated ==
    (best.called /\ numViable >= 2 /\ minimize /\ ~best.result.some)
        => \A k \in 1..Len(viable) :
              ~\E t \in Indices \ {viable[k]} :
                   compared[<<t, viable[k]>>] = "Better"

\* C27: findBestSolution never leaves a list that held a solution empty,
\* whatever antisymmetric outcomes the comparisons have.
C27_NeverEmptiesTheList ==
    (best.called /\ numViable >= 1) => viable # <<>>

\* The comparisons are transitive where they say Better.
TransitiveBetter ==
    \A i \in Indices : \A j \in Indices \ {i} :
        \A k \in Indices \ {i, j} :
            (compared[<<i, j>>] = "Better" /\ compared[<<j, k>>] = "Better")
                => compared[<<i, k>>] = "Better"

\* With transitive comparisons a solution is always left.
C27_TransitiveLeavesASolution ==
    TransitiveBetter => C27_NeverEmptiesTheList

\* Three solutions that beat each other in a circle (0 beats 1, 1 beats 2,
\* 2 beats 0) with minimize set: every one is marked a loser and the list
\* is left empty.
C27_CircleEmptiesTheList ==
    (/\ best.called
     /\ numViable = 3
     /\ minimize
     /\ compared[<<0, 1>>] = "Better"
     /\ compared[<<1, 2>>] = "Better"
     /\ compared[<<2, 0>>] = "Better")
        => /\ ~best.result.some
           /\ viable = <<>>

(***************************************************************************)
(* matchTypes across the match kinds.                                      *)
(***************************************************************************)
ProbedAll == Len(probed) = Len(TypeMatchKind)

ProbedResult(kind) == probed[KindRank(kind)]

\* C1: for every pair of types, with the same flags and from the same
\* constraint system, if matchTypes with SameType (Equal) returns Solved
\* then matchTypes with Subtype and with Conversion return Solved too.
C1_EqualSolvedImpliesWeakerSolved ==
    (ProbedAll /\ ProbedResult("SameType") = "Solved")
        => /\ ProbedResult("Subtype") = "Solved"
           /\ ProbedResult("Conversion") = "Solved"

\* The pair (@lvalue Int, Int) with an lvalue that is not implicit: Equal
\* is Solved, Subtype and Conversion are Error.
C1_LValueAgainstItsObjectType ==
    (/\ ProbedAll
     /\ probeType1 = LValueType(IntType, {})
     /\ probeType2 = IntType)
        => probed = <<"Error", "Solved", "Error", "Error", "Error">>

ProbedPair(type1, type2) ==
    ProbedAll /\ probeType1 = type1 /\ probeType2 = type2

\* C13: matchTypes(Int, Int?, Subtype) returns Error and
\* matchTypes(Int, Int?, Conversion) returns Solved, Int having no
\* user-defined conversion.
C13_ValueToOptionalOnlyConverts ==
    ProbedPair(IntType, OptionalType(IntType))
        => /\ ProbedResult("Subtype") = "Error"
           /\ ProbedResult("Conversion") = "Solved"

C13_Witness ==
    /\ ProbedPair(IntType, OptionalType(IntType))
    /\ ProbedResult("Subtype") = "Error"
    /\ ProbedResult("Conversion") = "Solved"

IntElt == TupleTypeElt("", IntType, FALSE, FALSE)

\* C14: matchTypes((Int, Int), Int, Conversion) returns Error and
\* matchTypes((Int), Int, Conversion) returns Solved.
C14_OnlyOneElementTuplesCollapse ==
    /\ ProbedPair(TupleType(<<IntElt, IntElt>>), IntType)
           => ProbedResult("Conversion") = "Error"
    /\ ProbedPair(TupleType(<<IntElt>>), IntType)
           => ProbedResult("Conversion") = "Solved"

C14_Witness ==
    /\ ProbedPair(TupleType(<<IntElt>>), IntType)
    /\ ProbedResult("Conversion") = "Solved"

\* The two-element tuple has been matched against Int too.
C14_TwoElementsProbed ==
    /\ ProbedPair(TupleType(<<IntElt, IntElt>>), IntType)
    /\ ProbedResult("Conversion") = "Error"

\* C15: whenever class C3 derives from C2 and C2 from C1,
\* matchTypes(C3, C1, Subtype) returns Solved, as matchTypes(C3, C2, Subtype)
\* and matchTypes(C2, C1, Subtype) do.
C15_SuperclassMatchingIsTransitive ==
    \A c1, c2, c3 \in ClassNames :
        (SuperclassName(c3) = c2 /\ SuperclassName(c2) = c1)
            => /\ ProbedPair(ClassType(c3), ClassType(c1))
                      => ProbedResult("Subtype") = "Solved"
               /\ ProbedPair(ClassType(c3), ClassType(c2))
                      => ProbedResult("Subtype") = "Solved"
               /\ ProbedPair(ClassType(c2), ClassType(c1))
                      => ProbedResult("Subtype") = "Solved"

C15_Witness ==
    /\ ProbedPair(ClassType("C"), ClassType("A"))
    /\ SuperclassName("C") = "B"
    /\ SuperclassName("B") = "A"
    /\ ProbedResult("Subtype") = "Solved"

ConcretePair == ~hasTypeVariable(probeType1) /\ ~hasTypeVariable(probeType2)

\* C16: for every pair of concrete types, if matchTypes with BindType
\* (Bind) returns Solved then matchTypes with SameType (Equal) returns
\* Solved for the same pair.
C16_BindSolvedImpliesEqualSolved ==
    (ProbedAll /\ ConcretePair /\ ProbedResult("BindType") = "Solved")
        => ProbedResult("SameType") = "Solved"

\* The pair ((x: Int), (Int)): Bind is Solved and Equal is Error.
C16_LabelledAgainstUnlabelled ==
    ProbedPair(TupleType(<<TupleTypeElt("x", IntType, FALSE, FALSE)>>),
               TupleType(<<IntElt>>))
        => /\ ProbedResult("BindType") = "Solved"
           /\ ProbedResult("SameType") = "Error"

\* Bind and Equal agree on every pair of concrete types that holds no
\* tuple type.
C16_AgreeWithoutTuples ==
    (/\ ProbedAll
     /\ ConcretePair
     /\ probeType1.k # "Tuple"
     /\ probeType2.k # "Tuple"
     /\ ProbedResult("BindType") = "Solved")
        => ProbedResult("SameType") = "Solved"

\* The two types as matchTypes with that kind looks through them.
Looked1(kind) == getFixedTypeRecursive(constraintSystem, probeType1, kind = "SameType")
Looked2(kind) == getFixedTypeRecursive(constraintSystem, probeType2, kind = "SameType")

ProbeConcrete(kind) ==
    Looked1(kind).typeVar = NullTypeVar /\ Looked2(kind).typeVar = NullTypeVar

\* matchTypes with that kind gets as far as collecting the potential
\* conversions and committing to them.
Commits(kind) ==
    /\ Looked1(kind).type # Looked2(kind).type
    /\ \/ ProbeConcrete(kind)
       \/ /\ kind \notin {"BindType", "SameType"}
          /\ probeFlags = TMF_None
          /\ (Looked1(kind).typeVar = NullTypeVar) # (Looked2(kind).typeVar = NullTypeVar)
    /\ ~(Looked1(kind).type.k = Looked2(kind).type.k
           /\ Looked1(kind).type.k \in {"Function", "LValue"})
    /\ ~potentialConversions(Looked1(kind).type, Looked2(kind).type,
                             ProbeConcrete(kind), kind).autoClosure

Candidates(kind) ==
    potentialConversions(Looked1(kind).type, Looked2(kind).type,
                         ProbeConcrete(kind), kind).convs

\* What the matcher of the single candidate gives.
SingleMatch(kind) ==
    matchRestricted(constraintSystem, Candidates(kind)[1], Looked1(kind).type,
                    Looked2(kind).type, kind, probeFlags,
                    probeFlags \cup TMF_GenerateConstraints, probeLocator)

\* The constraint is a disjunction with one alternative for each candidate,
\* in their order, on the two types.
IsDisjunctionOver(constraint, kind) ==
    /\ constraint.kind = "Disjunction"
    /\ Len(constraint.nested) = Len(Candidates(kind))
    /\ \A j \in 1..Len(constraint.nested) :
           /\ constraint.nested[j].restriction = Candidates(kind)[j]
           /\ constraint.nested[j].first = Looked1(kind).type
           /\ constraint.nested[j].second = Looked2(kind).type

Disjunctions(cs) ==
    {k \in 1..Len(cs.Constraints) : cs.Constraints[k].kind = "Disjunction"}

\* C19: of a call of matchTypes that commits to the conversions it has
\* collected: with none it returns Unsolved if a side is still a type
\* variable and Error if not; with one it returns what the matcher of that
\* conversion returns, and adds no disjunction; with two or more it adds
\* exactly one disjunction, of one alternative per conversion in the order
\* collected, and returns Solved.
C19_CommitsToTheConversionsCollected ==
    \A i \in 1..Len(probed) :
        Commits(TypeMatchKind[i]) =>
            IF Candidates(TypeMatchKind[i]) = <<>>
            THEN probed[i] = IF ProbeConcrete(TypeMatchKind[i])
                             THEN "Error" ELSE "Unsolved"
            ELSE IF Len(Candidates(TypeMatchKind[i])) = 1
            THEN /\ probed[i] = SingleMatch(TypeMatchKind[i]).r
                 /\ history[i].after = SingleMatch(TypeMatchKind[i]).cs
                 /\ \A k \in Disjunctions(history[i].after) :
                        history[i].after.Constraints[k].nested[1].first
                            # Looked1(TypeMatchKind[i]).type
            ELSE /\ probed[i] = "Solved"
                 /\ Cardinality(Disjunctions(history[i].after)) = 1
                 /\ Len(history[i].after.Constraints) = 1
                 /\ IsDisjunctionOver(history[i].after.Constraints[1],
                                      TypeMatchKind[i])

\* Each of the three cases has been seen on the one pair of types: no
\* candidate at one kind, one at another, several at a third.
C19_Witness ==
    /\ ProbedAll
    /\ \E i, j, k \in 1..Len(probed) :
           /\ Commits(TypeMatchKind[i])
           /\ Commits(TypeMatchKind[j])
           /\ Commits(TypeMatchKind[k])
           /\ Candidates(TypeMatchKind[i]) = <<>>
           /\ Len(Candidates(TypeMatchKind[j])) = 1
           /\ Len(Candidates(TypeMatchKind[k])) > 1
           /\ Len(history[k].after.Constraints) = 1

\* No candidate, with a type variable on one side.
C19_UnsolvedSeen ==
    \E i \in 1..Len(probed) :
        /\ Commits(TypeMatchKind[i])
        /\ ~ProbeConcrete(TypeMatchKind[i])
        /\ Candidates(TypeMatchKind[i]) = <<>>
        /\ probed[i] = "Unsolved"

(***************************************************************************)
(* The type-variable store.                                                *)
(***************************************************************************)
\* The constraint system that operation i left.
After(i) == IF i = Len(history) THEN constraintSystem ELSE history[i + 1].before

SameClass(c, v, w) == getRepresentative(c, v) = getRepresentative(c, w)

\* Operation i is matchTypes with Bind or Equal on two type variables that
\* have no fixed type.
MeetsUnboundVariables(i) ==
    /\ history[i].op = "matchTypes"
    /\ history[i].kind \in {"BindType", "SameType"}
    /\ history[i].type1.k = "TypeVariable"
    /\ history[i].type2.k = "TypeVariable"
    /\ getFixedType(history[i].before, history[i].type1.id) = NoType
    /\ getFixedType(history[i].before, history[i].type2.id) = NoType

\* Operations i and i + 1 are matchTypes(a, b) and matchTypes(b, a) with
\* one kind, a and b unbound and of one canBindToLValue option.
MergedBothWays(i) ==
    /\ i + 1 <= Len(history)
    /\ MeetsUnboundVariables(i)
    /\ history[i].before.canBindToLValue[history[i].type1.id]
           = history[i].before.canBindToLValue[history[i].type2.id]
    /\ history[i + 1].op = "matchTypes"
    /\ history[i + 1].kind = history[i].kind
    /\ history[i + 1].type1 = history[i].type2
    /\ history[i + 1].type2 = history[i].type1

\* C4: for two unbound type variables a and b with the same canBindToLValue
\* option, matchTypes(a, b, Bind or Equal) followed by matchTypes(b, a, same
\* kind) leaves a and b in one equivalence class, and the second call
\* returns Solved and changes no representative and no binding.
C4_MergeIsCommutativeAndIdempotent ==
    \A i \in 1..Len(history) :
        MergedBothWays(i) =>
            /\ history[i].result = "Solved"
            /\ history[i + 1].result = "Solved"
            /\ SameClass(After(i + 1), history[i].type1.id, history[i].type2.id)
            /\ \A v \in TypeVarIds :
                   getRepresentative(After(i + 1), v)
                       = getRepresentative(After(i), v)
            /\ After(i + 1).ParentOrFixed = After(i).ParentOrFixed

C4_Witness ==
    \E i \in 1..Len(history) :
        /\ MergedBothWays(i)
        /\ ~SameClass(history[i].before, history[i].type1.id, history[i].type2.id)
        /\ SameClass(constraintSystem, history[i].type1.id, history[i].type2.id)

\* C5: after any merges and fixed-type assignments made since a snapshot,
\* each saving the binding it changes, restoring the saved bindings in
\* reverse order gives every type variable the binding it had at the
\* snapshot.
C5_RestoreRoundTrips ==
    \A i \in 1..Len(history) :
        history[i].op = "restore" =>
            /\ After(i).ParentOrFixed = history[i].scope.ParentOrFixed
            /\ Len(After(i).savedBindings) = history[i].scope.numSavedBindings

\* A restore that undid a merge and a fixed-type assignment.
C5_Witness ==
    \E i \in 1..Len(history) :
        /\ history[i].op = "restore"
        /\ Len(history[i].before.savedBindings)
               >= history[i].scope.numSavedBindings + 2
        /\ \E v \in TypeVarIds :
               /\ history[i].before.ParentOrFixed[v].fixed
               /\ ~history[i].scope.ParentOrFixed[v].fixed
        /\ \E v \in TypeVarIds :
               /\ history[i].before.ParentOrFixed[v] # Parent(v)
               /\ ~history[i].before.ParentOrFixed[v].fixed
               /\ history[i].scope.ParentOrFixed[v] = Parent(v)

\* Operation i is matchTypes with Bind or Equal on two unbound type
\* variables whose representatives differ in canBindToLValue.
MeetsDifferingOptions(i) ==
    /\ MeetsUnboundVariables(i)
    /\ LET c == history[i].before
       IN  c.canBindToLValue[getRepresentative(c, history[i].type1.id)]
               # c.canBindToLValue[getRepresentative(c, history[i].type2.id)]

\* C6: no equivalence class ever holds two type variables whose
\* canBindToLValue options differ; and matchTypes (Bind or Equal) on two
\* unbound variables whose representatives differ in the option merges
\* nothing: with TMF_GenerateConstraints it adds a relational constraint
\* between the two representatives and returns Solved, without it returns
\* Unsolved, and it never returns Error.
C6_LValueCapabilityIsKept ==
    /\ \A v, w \in TypeVarIds :
           SameClass(constraintSystem, v, w)
               => constraintSystem.canBindToLValue[v]
                      = constraintSystem.canBindToLValue[w]
    /\ \A i \in 1..Len(history) :
           MeetsDifferingOptions(i) =>
               LET c == history[i].before
                   rep1 == getRepresentative(c, history[i].type1.id)
                   rep2 == getRepresentative(c, history[i].type2.id)
               IN  /\ After(i).ParentOrFixed = c.ParentOrFixed
                   /\ history[i].result # "Error"
                   /\ IF history[i].flags = TMF_GenerateConstraints
                      THEN /\ history[i].result = "Solved"
                           /\ After(i).Constraints =
                                  Append(c.Constraints,
                                         RelationalConstraint(
                                             getConstraintKind(history[i].kind),
                                             TypeVariableType(rep1),
                                             TypeVariableType(rep2),
                                             NoLocator))
                      ELSE /\ history[i].result = "Unsolved"
                           /\ After(i).Constraints = c.Constraints

C6_Witness ==
    /\ \E i \in 1..Len(history) :
           MeetsDifferingOptions(i) /\ history[i].flags = TMF_GenerateConstraints
    /\ \E i \in 1..Len(history) :
           MeetsDifferingOptions(i) /\ history[i].flags = TMF_None

(***************************************************************************)
(* Member resolution.                                                      *)
(***************************************************************************)
\* The base instance type, as simplifyMemberConstraint gets to see it.
BaseInstanceType ==
    instanceTypeOf(getRValueType(simplifyType(constraintSystem,
                                              memberConstraint.first)))

BaseObjectType ==
    getRValueType(simplifyType(constraintSystem, memberConstraint.first))

\* C7: with a concrete base type, a member constraint is never left
\* Unsolved, and when no candidate survives the filters the outcome is Error:
\* neither Solved nor a failed "Empty overload set" assertion.
C7_EmptyCandidateSetIsError ==
    (memberResult.called /\ BaseInstanceType.k # "TypeVariable")
        => /\ memberResult.r # "Unsolved"
           /\ memberResult.r # "AssertionFailure"
           /\ memberResult.choices = <<>> => memberResult.r = "Error"

\* What the code does for a TypeMember constraint when lookup finds only
\* invalid declarations: the assertion of addOverloadSet fails, or, in a
\* build without assertions, an empty disjunction is added and the outcome
\* is Solved.
C7_TypeMemberWithOnlyInvalidResults ==
    (/\ memberResult.called
     /\ memberConstraint.kind = "TypeMember"
     /\ memberConstraint.member # "init"
     /\ BaseInstanceType.k \notin {"TypeVariable", "Tuple"}
     /\ lookupResult # <<>>
     /\ \A i \in 1..Len(lookupResult) : lookupResult[i].isInvalid)
        => /\ memberResult.choices = <<>>
           /\ memberResult.r = IF assertsEnabled THEN "AssertionFailure" ELSE "Solved"
           /\ ~assertsEnabled =>
                  memberResult.cs.Constraints =
                      <<createDisjunction(<<>>, memberConstraint.locator)>>

\* The call went through the general member lookup: a value member other
\* than a constructor, of a base that is no tuple, and lookup found
\* something.
GeneralLookup ==
    /\ memberResult.called
    /\ memberConstraint.kind = "ValueMember"
    /\ memberConstraint.member # "init"
    /\ BaseInstanceType.k # "TypeVariable"
    /\ BaseObjectType.k # "Tuple"
    /\ lookupResult # <<>>

Survivors ==
    {memberResult.choices[i].decl[1] : i \in 1..Len(memberResult.choices)}

\* C22: after the general member lookup every surviving candidate is static
\* when the base is a metatype, and an instance member when the base is an
\* instance that is no module.
C22_SurvivorsMatchTheBase ==
    GeneralLookup
        => IF BaseObjectType.k = "MetaType"
           THEN \A d \in Survivors : ~d.isInstanceMember
           ELSE BaseObjectType.k # "Module"
                    => \A d \in Survivors : d.isInstanceMember

\* C22 as the code has it: on a metatype the instance members that survive
\* are functions, and none survives the dynamic lookup.
C22_SurvivorsMatchTheBaseButFunctions ==
    GeneralLookup
        => IF BaseObjectType.k = "MetaType"
           THEN \A d \in Survivors :
                    d.isInstanceMember
                        => (d.isFuncDecl /\ ~isDynamicLookupProtocol(BaseInstanceType))
           ELSE BaseObjectType.k # "Module"
                    => \A d \in Survivors : d.isInstanceMember

C22_Witness ==
    /\ GeneralLookup
    /\ BaseObjectType.k = "MetaType"
    /\ Len(lookupResult) = 2
    /\ Len(memberResult.choices) = 1
    /\ \E d \in Survivors : d.isInstanceMember /\ d.isFuncDecl

\* An instance base keeps an instance member and drops a static one.
C22_InstanceBaseSeen ==
    /\ GeneralLookup
    /\ BaseObjectType = IntType
    /\ Len(lookupResult) = 2
    /\ Len(memberResult.choices) = 1

(***************************************************************************)
(* Ranking.                                                                *)
(***************************************************************************)
Compared1 == solutions[comparison.idx1 + 1]
Compared2 == solutions[comparison.idx2 + 1]

\* Some locator has two choices that are not the same.
OverloadChoiceDiffers ==
    \E l \in DOMAIN Compared1.overloadChoices :
        ~sameOverloadChoice(Compared1.overloadChoices[l],
                            Compared2.overloadChoices[l])

\* Some type variable that prefers subtype bindings is bound to two types
\* that differ, initializers aside.
SubtypeBindingDiffers ==
    \E v \in DOMAIN Compared1.typeBindings :
        /\ prefersSubtypeBinding[v]
        /\ stripInitializers(Compared1.typeBindings[v])
               # stripInitializers(Compared2.typeBindings[v])

\* C10: compareSolutions says Better or Worse exactly when the accumulated
\* scores differ, Identical exactly when they are equal and neither an
\* overload choice nor a binding of a type variable that prefers subtype
\* bindings differs, and Incomparable otherwise.
C10_ClassifiesByScoreAndDifference ==
    comparison.called =>
        /\ comparison.result \in {"Better", "Worse"}
               <=> comparison.score1 # comparison.score2
        /\ comparison.result = "Identical"
               <=> /\ comparison.score1 = comparison.score2
                   /\ ~OverloadChoiceDiffers
                   /\ ~SubtypeBindingDiffers
        /\ comparison.result \in SolutionCompareResult

\* What the code does: it says Identical exactly when the scores are equal
\* and its flag has stayed set, and the flag stays set through a binding
\* that differs when one type is a subtype of the other and one of them is
\* the unlabeled form of both.
C10_IdenticalFollowsTheFlag ==
    comparison.called =>
        /\ comparison.result \in {"Better", "Worse"}
               <=> comparison.score1 # comparison.score2
        /\ comparison.result = "Identical"
               <=> comparison.score1 = comparison.score2 /\ comparison.identical
        /\ (~OverloadChoiceDiffers /\ ~SubtypeBindingDiffers) => comparison.identical
        /\ (comparison.identical /\ SubtypeBindingDiffers) =>
               \E v \in DOMAIN Compared1.typeBindings :
                   getUnlabeledType(stripInitializers(Compared1.typeBindings[v]))
                       = getUnlabeledType(stripInitializers(Compared2.typeBindings[v]))

\* The constraints that isSubtypeOf, isConvertibleTo and
\* isDeclAsSpecializedAs add are settled when added: none is left for the
\* solver.
NothingLeftToSolve ==
    \A kind \in {"Subtype", "Conversion"} :
        \A type1 \in CompareBindings \cup {d.input : d \in CompareDecls} :
            \A type2 \in CompareBindings \cup {d.input : d \in CompareDecls} :
                (~hasTypeVariable(type1) /\ ~hasTypeVariable(type2)) =>
                    systemWith(kind, stripInitializers(type1),
                               stripInitializers(type2)).Constraints = <<>>

ChosenDecl(idx) == solutions[idx + 1].overloadChoices[1].decl[1]

\* The two solutions differ in nothing but the declaration chosen, found
\* directly in both.
DifferOnlyInDeclaration ==
    /\ solutions # <<>>
    /\ solutions[1].fixedScore = solutions[2].fixedScore
    /\ solutions[1].typeBindings = solutions[2].typeBindings
    /\ solutions[1].overloadChoices[1].kind = "Decl"
    /\ solutions[2].overloadChoices[1].kind = "Decl"
    /\ ChosenDecl(0) # ChosenDecl(1)

MoreSpecialized(decl1, decl2) ==
    isDeclAsSpecializedAs(decl1, decl2) /\ ~isDeclAsSpecializedAs(decl2, decl1)

\* C11: of two solutions that differ only in the declaration chosen at one
\* locator, the one whose declaration is more specialized compares Better
\* and is what findBestSolution returns; if neither declaration is more
\* specialized than the other, the two compare Incomparable and
\* findBestSolution returns no best.
C11_MoreSpecializedDeclarationWins ==
    DifferOnlyInDeclaration =>
        /\ comparison.called =>
               /\ MoreSpecialized(ChosenDecl(comparison.idx1),
                                  ChosenDecl(comparison.idx2))
                      => comparison.result = "Better"
               /\ MoreSpecialized(ChosenDecl(comparison.idx2),
                                  ChosenDecl(comparison.idx1))
                      => comparison.result = "Worse"
               /\ (isDeclAsSpecializedAs(ChosenDecl(0), ChosenDecl(1))
                       = isDeclAsSpecializedAs(ChosenDecl(1), ChosenDecl(0)))
                      => comparison.result = "Incomparable"
        /\ best.called =>
               /\ MoreSpecialized(ChosenDecl(0), ChosenDecl(1))
                      => best.result = Some(0)
               /\ MoreSpecialized(ChosenDecl(1), ChosenDecl(0))
                      => best.result = Some(1)
               /\ (isDeclAsSpecializedAs(ChosenDecl(0), ChosenDecl(1))
                       = isDeclAsSpecializedAs(ChosenDecl(1), ChosenDecl(0)))
                      => best.result = Nothing

C11_Witness ==
    /\ DifferOnlyInDeclaration
    /\ comparison.called
    /\ best.called
    /\ MoreSpecialized(ChosenDecl(1), ChosenDecl(0))
    /\ comparison.idx1 = 1
    /\ comparison.result = "Better"
    /\ best.result = Some(1)

\* The state in which each declaration is as specialized as the other and
\* findBestSolution has returned no best.
C11_EachAsSpecializedAsTheOther ==
    /\ DifferOnlyInDeclaration
    /\ best.called
    /\ best.result = Nothing
    /\ isDeclAsSpecializedAs(ChosenDecl(0), ChosenDecl(1))
    /\ isDeclAsSpecializedAs(ChosenDecl(1), ChosenDecl(0))

(***************************************************************************)
(* addConstraint.                                                          *)
(***************************************************************************)
\* The additions whose simplification returned Error.
FailedAdditions == {i \in 1..Len(history) : history[i].simplified = "Error"}

\* C12: failedConstraint is the first constraint whose simplification
\* returned Error, whatever was added after it, and is null as long as no
\* simplification has returned Error.
C12_FirstFailureIsRetained ==
    constraintSystem.failedConstraint =
        IF FailedAdditions = {} THEN NoConstraint
        ELSE history[Min(FailedAdditions)].constraint

\* Two different constraints have failed, and one was added after them
\* that did not.
C12_Witness ==
    /\ Len(history) = 3
    /\ FailedAdditions = {1, 2}
    /\ history[1].constraint # history[2].constraint
    /\ constraintSystem.failedConstraint = history[1].constraint

(***************************************************************************)
(* The search over a disjunction.                                          *)
(***************************************************************************)
Entered == {i \in 1..Len(history) : history[i].op = "alternative"}

LeftAlternatives == {i \in 1..Len(history) : history[i].op = "leave"}

\* The disjunction that was added.
AddedDisjunction ==
    history[CHOOSE i \in 1..Len(history) : history[i].op = "addConstraint"].constraint

\* The system as it was when the first alternative was entered.
BeforeBranching == history[Min(Entered)].before

\* The solutions of the first n alternatives, each tried on its own from cs.
RECURSIVE solutionsUpTo(_, _)
solutionsUpTo(cs, n) ==
    IF n = 0 THEN <<>>
    ELSE solutionsUpTo(cs, n - 1)
         \o (IF isSolved(tryAlternative(cs, n))
             THEN <<solutionOf(tryAlternative(cs, n))>> ELSE <<>>)

\* C17: every alternative of the disjunction is entered from the state
\* that held before the first one was; leaving an alternative, failed or
\* solved, gives that state back; as long as alternatives remain the
\* search has no failure and still has them to enter; and the solutions
\* collected are those of all the solved alternatives left so far, each as
\* it comes out when tried alone.
C17_AlternativesAreIndependent ==
    /\ \A i \in Entered : history[i].before = BeforeBranching
    /\ (Entered # {} /\ scopes = <<>>) => constraintSystem = BeforeBranching
    /\ Entered # {}
           => solutions = solutionsUpTo(BeforeBranching,
                                        Cardinality(LeftAlternatives))
    /\ (/\ NumOperations("addConstraint") = 1
        /\ constraintSystem.solverState
        /\ scopes = <<>>
        /\ Cardinality(Entered) < Len(AddedDisjunction.nested))
           => /\ constraintSystem.failedConstraint = NoConstraint
              /\ alternativesOf(constraintSystem) = AddedDisjunction.nested

\* Three alternatives have been left: the first failed with an error, the
\* two after it were solved and gave two different solutions.
C17_Witness ==
    /\ Cardinality(LeftAlternatives) = 3
    /\ scopes = <<>>
    /\ \E i \in LeftAlternatives :
           /\ history[i].index = 1
           /\ history[i].before.failedConstraint # NoConstraint
    /\ Len(solutions) = 2
    /\ solutions[1] # solutions[2]

(***************************************************************************)
(* The task-group test.                                                    *)
(***************************************************************************)
\* The group of the test main is in has returned.
GroupReturned == mainPc \in {"print", "exit"}

\* The group returns only after its body has and after all the child tasks
\* added have finished, each having incremented the Waiter; it returns what
\* the body returned; and what is printed is until.
C18_ReturnsAfterBodyAndChildren ==
    /\ GroupReturned
           => /\ bodyResult.returned
              /\ NumTasks("finished") = until
              /\ waiter.count = until
              /\ allTasks = bodyResult.value
              /\ allTasks = until
    /\ \A i \in 1..Len(printed) : printed[i] = until

Restricted ==
    {i \in 1..Len(history) :
        history[i].op = "addConstraint" /\ history[i].constraint.restriction # ""}

UsedRestriction(constraint) ==
    <<constraint.first, constraint.second, constraint.restriction>>

\* Addition i appended the restriction of its constraint to the
\* restrictions used, or left them as they were.
Recorded(i) ==
    After(i).constraintRestrictions
        = Append(history[i].before.constraintRestrictions,
                 UsedRestriction(history[i].constraint))

NothingRecorded(i) ==
    After(i).constraintRestrictions = history[i].before.constraintRestrictions

C20_SubtypeNotRecorded ==
    \E i \in Restricted :
        /\ history[i].constraint.kind = "Subtype"
        /\ history[i].simplified = "Solved"
        /\ NothingRecorded(i)

(***************************************************************************)
(* Conjunctions.                                                           *)
(***************************************************************************)
Conjunctions ==
    {i \in 1..Len(history) : history[i].constraint.kind = "Conjunction"}

\* The nested constraints added in order from cs, up to and with the first
\* whose own simplification gives Error: failedAt is its position, or 0.
RECURSIVE AddedInOrder(_, _, _)
AddedInOrder(cs, nested, i) ==
    IF i > Len(nested) THEN [failedAt |-> 0, cs |-> cs]
    ELSE IF callSimplifyConstraint(cs, nested[i]).r = "Error"
    THEN [failedAt |-> i, cs |-> callAddConstraint(cs, nested[i]).cs]
    ELSE AddedInOrder(callAddConstraint(cs, nested[i]).cs, nested, i + 1)

ConjunctionAsClaimed(i) ==
    /\ (history[i].simplified = "Error")
           = (AddedInOrder(history[i].before, history[i].constraint.nested, 1).failedAt # 0)
    /\ history[i].simplified \in {"Error", "Solved"}
    /\ callSimplifyConstraint(history[i].before, history[i].constraint).cs
           = AddedInOrder(history[i].before, history[i].constraint.nested, 1).cs

\* C21: simplifying a conjunction adds its nested constraints in order and
\* returns Error exactly when the addition of one of them fails, stopping
\* there; otherwise all are added and the result is Solved, whatever
\* failure the constraint system held before.
C21_ConjunctionFailsWithItsOwnConstraints ==
    \A i \in Conjunctions : ConjunctionAsClaimed(i)

\* On a constraint system that holds no failure the conjunction does as
\* claimed.
C21_HoldsWithoutEarlierFailure ==
    \A i \in Conjunctions :
        history[i].before.failedConstraint = NoConstraint
            => ConjunctionAsClaimed(i)

\* On a constraint system that holds a failure the conjunction returns
\* Error after its first nested constraint, whatever that one gives.
C21_EarlierFailureEndsTheConjunction ==
    \A i \in Conjunctions :
        history[i].before.failedConstraint # NoConstraint
            => /\ history[i].simplified = "Error"
               /\ callSimplifyConstraint(history[i].before, history[i].constraint).cs
                      = callAddConstraint(history[i].before,
                                          history[i].constraint.nested[1]).cs

(***************************************************************************)
(* Cyclic bindings.                                                        *)
(***************************************************************************)
\* The type variables a type mentions.
RECURSIVE typeVariablesIn(_)
typeVariablesIn(type) ==
    IF type.k = "TypeVariable" THEN {type.id}
    ELSE UNION {typeVariablesIn(type.a[i]) : i \in 1..Len(type.a)}

\* The representatives of the type variables the fixed type of v mentions.
MentionedBy(cs, v) ==
    IF getFixedType(cs, v) = NoType THEN {}
    ELSE {getRepresentative(cs, w) : w \in typeVariablesIn(getFixedType(cs, v))}

\* The representatives reached from v in up to n + 1 steps.
RECURSIVE ReachedFrom(_, _, _)
ReachedFrom(cs, v, n) ==
    IF n = 0 THEN MentionedBy(cs, v)
    ELSE MentionedBy(cs, v)
             \cup UNION {ReachedFrom(cs, w, n - 1) : w \in MentionedBy(cs, v)}

Cyclic(cs) ==
    \E v \in TypeVarIds :
        getRepresentative(cs, v) \in ReachedFrom(cs, v, NumTypeVars)

\* C24: after any sequence of matchTypes calls at Bind or Equal between a
\* type variable and a type, the fixed type of no type variable mentions
\* that type variable, directly or through fixed types and representatives.
C24_NoCyclicBinding ==
    ~Cyclic(constraintSystem)

\* A cycle is made by a call that binds a type variable to a type that
\* mentions it inside an optional or an lvalue.
C24_CyclesComeFromMentions ==
    Cyclic(constraintSystem)
        => \E i \in 1..Len(history) :
               /\ history[i].result = "Solved"
               /\ \E t \in {history[i].type1, history[i].type2} :
                      t.k # "TypeVariable" /\ typeVariablesIn(t) # {}

\* Bind of $T1 to $T1? on a fresh constraint system is Solved and leaves
\* $T1 with the fixed type $T1?.
C24_BoundToItsOwnOptional ==
    \A i \in 1..Len(history) :
        (/\ history[i].type1 = TypeVariableType(1)
         /\ history[i].type2 = OptionalType(TypeVariableType(1))
         /\ getFixedType(history[i].before, 1) = NoType)
            => /\ history[i].result = "Solved"
               /\ getFixedType(After(i), 1) = OptionalType(TypeVariableType(1))

\* A state in which looking through the fixed type of $T1 for an rvalue
\* does not end: $T1 is bound to an lvalue of $T1.
C24_LookThroughNeverEnds ==
    ~LookThroughEnds(constraintSystem, TypeVariableType(1), TRUE)

(***************************************************************************)
(* The comparison under a swap of its arguments, and the diff.             *)
(***************************************************************************)
Swapped ==
    compareSolutions(solutions, SolutionDiff(solutions), comparison.idx2,
                     comparison.idx1, prefersSubtypeBinding)

\* C28: compareSolutions(i, j) is Better exactly when compareSolutions(j, i)
\* is Worse, and Identical and Incomparable are the same in both orders.
C28_SwapMirrorsTheVerdict ==
    comparison.called
        => /\ Swapped.result = Mirror(comparison.result)
           /\ Swapped.score1 = comparison.score2
           /\ Swapped.score2 = comparison.score1
           /\ Swapped.identical = comparison.identical

C28_Witness ==
    /\ comparison.called
    /\ comparison.idx1 = 1
    /\ comparison.result = "Better"
    /\ Swapped.result = "Worse"
    /\ comparison.score1 >= 2

\* Both orders are Incomparable.
C28_IncomparableSeen ==
    /\ comparison.called
    /\ comparison.result = "Incomparable"
    /\ Swapped.result = "Incomparable"

Diffed == SolutionDiff(solutions)

\* C29: the diff lists each differing locator once: at most one overload
\* entry for a locator and one type-binding entry for a type variable,
\* however many solutions disagree with the first.
C29_EachLocatorListedOnce ==
    comparison.called
        => /\ \A i \in 1..Len(Diffed.overloads) :
                  \A j \in 1..Len(Diffed.overloads) :
                      Diffed.overloads[i].locator = Diffed.overloads[j].locator
                          => i = j
           /\ \A i \in 1..Len(Diffed.typeBindings) :
                  \A j \in 1..Len(Diffed.typeBindings) :
                      Diffed.typeBindings[i].typeVar = Diffed.typeBindings[j].typeVar
                          => i = j

\* A type variable is listed once; a locator is listed once for each
\* solution whose choice is not the same as the first solution's.
C29_ListedOncePerDisagreeingSolution ==
    comparison.called
        => /\ Len(Diffed.typeBindings) <= 1
           /\ Len(Diffed.overloads) =
                  Cardinality({i \in 1..Len(solutions) :
                      ~sameOverloadChoice(solutions[1].overloadChoices[1],
                                          solutions[i].overloadChoices[1])})

ChoiceOf(input) == OverloadChoice("Decl", NoType, <<FuncDecl("f", input)>>, -1)

\* f(B) with fixed score 0 against f(A) with fixed score 1, the bindings
\* the same: Incomparable (1 and 1) when the third solution chooses f(B)
\* as the first does, Better (2 and 1) when it chooses f(A).
C29_ThirdSolutionDecides ==
    (/\ comparison.called
     /\ Len(solutions) = 3
     /\ comparison.idx1 = 0
     /\ comparison.idx2 = 1
     /\ solutions[1].fixedScore = 0
     /\ solutions[2].fixedScore = 1
     /\ solutions[1].overloadChoices[1] = ChoiceOf(ClassType("B"))
     /\ solutions[2].overloadChoices[1] = ChoiceOf(ClassType("A"))
     /\ \A i \in 2..3 : solutions[i].typeBindings = solutions[1].typeBindings)
        => /\ solutions[3].overloadChoices[1] = ChoiceOf(ClassType("B"))
                  => /\ comparison.result = "Incomparable"
                     /\ comparison.score1 = 1
           /\ solutions[3].overloadChoices[1] = ChoiceOf(ClassType("A"))
                  => /\ comparison.result = "Better"
                     /\ comparison.score1 = 2

(***************************************************************************)
(* Function types that differ in a flag.                                   *)
(***************************************************************************)
FunctionsProbed ==
    ProbedAll /\ probeType1.k = "Function" /\ probeType2.k = "Function"

\* A flag the two function types differ in is met as claimed: Error at Bind
\* and Equal, and Error at every kind when it is the second that has it.
MismatchRejected(flag) ==
    ((flag \in probeType1.q) # (flag \in probeType2.q))
        => /\ ProbedResult("BindType") = "Error"
           /\ ProbedResult("SameType") = "Error"
           /\ flag \in probeType2.q
                  => \A kind \in {"TrivialSubtype", "Subtype", "Conversion"} :
                         ProbedResult(kind) = "Error"

\* C30: two function types that differ in the never-returns flag or in the
\* auto-closure flag give Error at Bind and at Equal; the mismatch is
\* tolerated at TrivialSubtype or weaker only, and only with the flag on
\* the first function type.
C30_FlagMismatchIsAnErrorUpToEqual ==
    FunctionsProbed
        => MismatchRejected("AutoClosure") /\ MismatchRejected("NoReturn")

\* The auto-closure flag is met as claimed.
C30_AutoClosureMismatchRejected ==
    FunctionsProbed => MismatchRejected("AutoClosure")

\* Two function types that differ only in that the first never returns:
\* Error at Bind, Solved at Equal and at every weaker kind.
C30_NoReturnOnFirstPassesAtEqual ==
    (/\ FunctionsProbed
     /\ probeType1.a = probeType2.a
     /\ probeType1.q = probeType2.q \cup {"NoReturn"}
     /\ "NoReturn" \notin probeType2.q)
        => probed = <<"Error", "Solved", "Solved", "Solved", "Solved">>
=============================================================================
